---- MODULE Spec2Model ----
(***************************************************************************)
(* A model of the netlify-hybrid-images build plugin                       *)
(* (plugins/netlify-hybrid-images/src/setup.js): the path resolver, the    *)
(* fetcher with retry and backoff, the concurrency-bounded scheduler and   *)
(* the orchestrator that scans, downloads, saves the manifest and rewrites *)
(* the content documents.                                                  *)
(*                                                                         *)
(* Strings are sequences of one-character tokens.  A percent-escape of the *)
(* URL is one token ("%2E", "%2F"); "%" alone is a malformed escape.       *)
(***************************************************************************)
EXTENDS Integers, Sequences, FiniteSets, TLC

VARIABLES
    url,              \* resolver: the string handed to resolveMediaPath
    res,              \* resolver: what resolveMediaPath returned for url ("pending" before the call)
    opts,             \* the plugin options of this build (index.js defaultOptions, overridable)
    env,              \* the origin server, the network and the disk faults of this build
    docFiles,         \* disk: the JSON files of public/content, in collectJsonFiles order
    assetFiles,       \* disk: the content of each asset file path under the media output directory
    manifestFile,     \* disk: the cache manifest file
    pc,               \* netlifyHybridImagesSetup: where the hook stands
    manifest,         \* the manifest object in memory
    scanIdx,          \* scan loop: number of JSON files already scanned
    assetMap,         \* Map cacheKey -> asset, as its values in insertion order
    fileEntries,      \* the (filePath, data) pairs kept for the rewrite
    rewriteIdx,       \* rewrite loop: number of file entries already handled
    index,            \* downloadWithConcurrency: the shared work-queue index
    counters,         \* downloadWithConcurrency: success, skipped, failed
    manifestUpdates,  \* downloadWithConcurrency: cacheKey -> metadata to upsert
    manifestRemovals, \* downloadWithConcurrency: cache keys to remove
    workers,          \* downloadWithConcurrency: the worker promises, each with its downloadAsset frame
    hist,             \* history: what was requested, slept, written and returned (for the properties)
    font,             \* fontDownloader: its options and origin, where its hook stands, public/fonts
    mw                \* middleware onRequest: the request, the build mode, global.json, the response

resolverVars == <<url, res>>
diskVars == <<docFiles, assetFiles, manifestFile>>
schedVars == <<index, counters, manifestUpdates, manifestRemovals, workers>>
hookVars == <<pc, manifest, scanIdx, assetMap, fileEntries, rewriteIdx>>
buildVars == <<opts, env, diskVars, hookVars, schedVars, hist>>

vars == <<resolverVars, buildVars, font, mw>>

(***************************************************************************)
(* Bounds of the model.                                                    *)
(***************************************************************************)
MaxPathLen == 5

(***************************************************************************)
(* String helpers (JavaScript String.prototype and Array.prototype).       *)
(***************************************************************************)
RECURSIVE SeqsUpTo(_, _)
SeqsUpTo(S, n) ==
    IF n = 0 THEN {<<>>}
    ELSE LET shorter == SeqsUpTo(S, n - 1)
         IN  shorter \cup {Append(s, c) : s \in {t \in shorter : Len(t) = n - 1}, c \in S}

StartsWith(s, p) ==
    /\ Len(s) >= Len(p)
    /\ SubSeq(s, 1, Len(p)) = p

Includes(s, sub) ==
    \E i \in 1..(Len(s) - Len(sub) + 1) : SubSeq(s, i, i + Len(sub) - 1) = sub

\* s.split(c): the pieces of s between the occurrences of c (always at least one piece)
RECURSIVE SplitOn(_, _)
SplitOn(s, c) ==
    IF \A i \in 1..Len(s) : s[i] # c THEN <<s>>
    ELSE LET i == CHOOSE k \in 1..Len(s) : s[k] = c /\ \A j \in 1..(k - 1) : s[j] # c
         IN  <<SubSeq(s, 1, i - 1)>> \o SplitOn(SubSeq(s, i + 1, Len(s)), c)

\* pieces.join(c)
RECURSIVE JoinWith(_, _)
JoinWith(pieces, c) ==
    IF Len(pieces) = 0 THEN <<>>
    ELSE IF Len(pieces) = 1 THEN pieces[1]
    ELSE pieces[1] \o <<c>> \o JoinWith(Tail(pieces), c)

\* array.filter(Boolean) on an array of strings: drops the empty strings
RECURSIVE FilterNonEmpty(_)
FilterNonEmpty(pieces) ==
    IF Len(pieces) = 0 THEN <<>>
    ELSE (IF pieces[1] = <<>> THEN <<>> ELSE <<pieces[1]>>) \o FilterNonEmpty(Tail(pieces))

(***************************************************************************)
(* decodeURIComponent: each escape token becomes the character it encodes; *)
(* a malformed escape raises URIError.                                     *)
(***************************************************************************)
Malformed(s) == \E i \in 1..Len(s) : s[i] = "%"

DecodeToken(c) ==
    IF c = "%2E" THEN "."
    ELSE IF c = "%2F" THEN "/"
    ELSE c

decodeURIComponent(s) == [i \in 1..Len(s) |-> DecodeToken(s[i])]

(***************************************************************************)
(* path.posix.normalize and path.join (Node's lib/path.js, posix).         *)
(***************************************************************************)
\* normalizeString: folds the segments, resolving "." and ".."
RECURSIVE normalizeString(_, _, _)
normalizeString(segs, acc, allowAboveRoot) ==
    IF Len(segs) = 0 THEN acc
    ELSE LET s == segs[1]
             next ==
                IF s = <<>> \/ s = <<".">> THEN acc
                ELSE IF s = <<".", ".">> THEN
                    IF Len(acc) > 0 /\ acc[Len(acc)] # <<".", ".">>
                        THEN SubSeq(acc, 1, Len(acc) - 1)
                    ELSE IF allowAboveRoot THEN Append(acc, s)
                    ELSE acc
                ELSE Append(acc, s)
         IN  normalizeString(Tail(segs), next, allowAboveRoot)

posixNormalize(p) ==
    IF Len(p) = 0 THEN <<".">>
    ELSE LET isAbsolute == p[1] = "/"
             trailingSeparator == p[Len(p)] = "/"
             body == JoinWith(normalizeString(SplitOn(p, "/"), <<>>, ~isAbsolute), "/")
         IN  IF Len(body) = 0
                 THEN (IF isAbsolute THEN <<"/">>
                       ELSE IF trailingSeparator THEN <<".", "/">> ELSE <<".">>)
             ELSE (IF isAbsolute THEN <<"/">> ELSE <<>>) \o body
                  \o (IF trailingSeparator THEN <<"/">> ELSE <<>>)

\* path.join(dir, ...segments): the non-empty arguments joined by "/" and normalized
pathJoin(dir, segments) ==
    posixNormalize(JoinWith(FilterNonEmpty(<<dir>> \o segments), "/"))

(***************************************************************************)
(* Configuration of one build (netlifyHybridImagesSetup, lines 772-778).   *)
(***************************************************************************)
KirbyUrl == <<"K">>
MediaPrefix == KirbyUrl \o <<"/", "M", "/">>
PublicDir == <<"/", "p">>
MediaDir == <<"m">>
MediaOutputDir == pathJoin(PublicDir, <<MediaDir>>)
\* options.cacheManifest of index.js, and manifestPath (lines 776-778)
CacheManifestName == <<"h">>
ManifestPath == pathJoin(MediaOutputDir, <<CacheManifestName>>)

(***************************************************************************)
(* resolveMediaPath                                                        *)
(***************************************************************************)
Null == [kind |-> "null"]
Throws == [kind |-> "throw"]

\* the directory-traversal guard on the normalized path
escapesRoot_onlyDotDot(posixPath) == posixPath = <<".", ".">>

escapesRoot(posixPath) ==
    \/ StartsWith(posixPath, <<".", ".", "/">>)
    \/ Includes(posixPath, <<".", ".", "\\">>)
    \/ posixPath = <<".", ".">>

resolveMediaPath(u) ==
    IF ~StartsWith(u, MediaPrefix) THEN Null
    ELSE LET remainder == SubSeq(u, Len(MediaPrefix) + 1, Len(u))
             parts == SplitOn(remainder, "?")
             rawPath == parts[1]
             query == IF Len(parts) >= 2 THEN parts[2] ELSE <<>>
         IN  IF rawPath = <<>> THEN Null
             ELSE IF Malformed(rawPath) THEN Throws
             ELSE LET decodedPath == decodeURIComponent(rawPath)
                      posixPath == posixNormalize(decodedPath)
                      segments == FilterNonEmpty(SplitOn(posixPath, "/"))
                      localPath == <<"/">> \o JoinWith(<<MediaDir>> \o segments, "/")
                  IN  IF escapesRoot(posixPath) THEN Null
                      ELSE IF Len(segments) = 0 THEN Null
                      ELSE [kind |-> "ok",
                            cacheKey |-> MediaDir \o <<"/">> \o JoinWith(segments, "/"),
                            remoteUrl |-> u,
                            downloadUrl |-> MediaPrefix \o rawPath,
                            filePath |-> pathJoin(MediaOutputDir, segments),
                            localPath |-> localPath,
                            localPathWithQuery |->
                                IF query # <<>> THEN localPath \o <<"?">> \o query
                                ELSE localPath]

(***************************************************************************)
(* JSON documents: a tree of tagged nodes.  An object is the sequence of   *)
(* its values in Object.entries order (keys are unique, so a key is a      *)
(* position).                                                              *)
(***************************************************************************)
Str(s) == [t |-> "str", v |-> s]
Num == [t |-> "num", v |-> <<>>]
Arr(items) == [t |-> "arr", v |-> items]
Obj(items) == [t |-> "obj", v |-> items]

RECURSIVE Concat(_)
Concat(seqs) == IF Len(seqs) = 0 THEN <<>> ELSE seqs[1] \o Concat(Tail(seqs))

\* the strings visit() hands to the transformer, in visiting order
RECURSIVE Strings(_)
Strings(node) ==
    IF node.t = "str" THEN <<node.v>>
    ELSE IF node.t \in {"arr", "obj"}
        THEN Concat([i \in 1..Len(node.v) |-> Strings(node.v[i])])
    ELSE <<>>

\* the rewrite transformer: the public path of a string that resolves, else the string
rewriteTransformer_downloadUrl(s) ==
    LET match == resolveMediaPath(s)
    IN  IF match.kind = "ok" THEN match.downloadUrl ELSE s

rewriteTransformer(s) ==
    LET match == resolveMediaPath(s)
    IN  IF match.kind = "ok" THEN match.localPathWithQuery ELSE s

\* visit(): what a node holds after the traversal with the rewrite transformer
RECURSIVE visit(_)
visit(node) ==
    IF node.t = "str" THEN Str(rewriteTransformer(node.v))
    ELSE IF node.t \in {"arr", "obj"}
        THEN [t |-> node.t, v |-> [i \in 1..Len(node.v) |-> visit(node.v[i])]]
    ELSE node

transformContent_alwaysModified(data) ==
    [value |-> IF data.t = "str" THEN data ELSE visit(data), modified |-> TRUE]

\* transformContent(data, rewrite transformer): containers are mutated in place, the
\* returned value is the argument itself, modified tells whether a string changed
transformContent(data) ==
    [value |-> IF data.t = "str" THEN data ELSE visit(data),
     modified |-> \E i \in 1..Len(Strings(data)) :
                      rewriteTransformer(Strings(data)[i]) # Strings(data)[i]]

(***************************************************************************)
(* Cache metadata.  A property that an object does not have is "absent"    *)
(* (0 for size, <<>> for the two paths); a property set to undefined is    *)
(* "undef".                                                                *)
(***************************************************************************)
NullMeta ==
    [has |-> FALSE, etag |-> "absent", lastModified |-> "absent", size |-> 0,
     downloadedAt |-> "absent", checkedAt |-> "absent", remoteUrl |-> <<>>, localPath |-> <<>>]

\* new Date().toISOString(): the time of this build, later than every stored timestamp
Now == env.now

\* a manifest is the sequence of its (key, entry) properties in insertion order
HasKey(m, k) == \E i \in 1..Len(m) : m[i].key = k

Lookup(m, k) ==
    IF HasKey(m, k) THEN m[CHOOSE i \in 1..Len(m) : m[i].key = k].e ELSE NullMeta

RECURSIVE DeleteKey(_, _)
DeleteKey(m, k) ==
    IF Len(m) = 0 THEN <<>>
    ELSE (IF m[1].key = k THEN <<>> ELSE <<m[1]>>) \o DeleteKey(Tail(m), k)

SetKey(m, k, e) ==
    IF HasKey(m, k)
        THEN [i \in 1..Len(m) |-> IF m[i].key = k THEN [key |-> k, e |-> e] ELSE m[i]]
    ELSE Append(m, [key |-> k, e |-> e])

Keys(m) == {m[i].key : i \in 1..Len(m)}

\* { ...previous, ...data }
Spread(previous, data) ==
    [has |-> TRUE,
     etag |-> IF data.etag = "absent" THEN previous.etag ELSE data.etag,
     lastModified |-> IF data.lastModified = "absent" THEN previous.lastModified
                      ELSE data.lastModified,
     size |-> IF data.size = 0 THEN previous.size ELSE data.size,
     downloadedAt |-> IF data.downloadedAt = "absent" THEN previous.downloadedAt
                      ELSE data.downloadedAt,
     checkedAt |-> IF data.checkedAt = "absent" THEN previous.checkedAt ELSE data.checkedAt,
     remoteUrl |-> IF data.remoteUrl = <<>> THEN previous.remoteUrl ELSE data.remoteUrl,
     localPath |-> IF data.localPath = <<>> THEN previous.localPath ELSE data.localPath]

(***************************************************************************)
(* The scan transformer (lines 828-851): registers the first occurrence of *)
(* each cache key with the cached metadata of the key.                     *)
(***************************************************************************)
HasAsset(amap, key) == \E i \in 1..Len(amap) : amap[i].cacheKey = key

registerAsset_lastWins(amap, match, meta) ==
    LET asset == [cacheKey |-> match.cacheKey, remoteUrl |-> match.remoteUrl,
                  downloadUrl |-> match.downloadUrl, filePath |-> match.filePath,
                  localPath |-> match.localPath,
                  localPathWithQuery |-> match.localPathWithQuery, metadata |-> meta]
    IN  IF HasAsset(amap, match.cacheKey)
            THEN [i \in 1..Len(amap) |->
                     IF amap[i].cacheKey = match.cacheKey THEN asset ELSE amap[i]]
        ELSE Append(amap, asset)

registerAsset(amap, match, meta) ==
    IF HasAsset(amap, match.cacheKey) THEN amap
    ELSE Append(amap, [cacheKey |-> match.cacheKey, remoteUrl |-> match.remoteUrl,
                       downloadUrl |-> match.downloadUrl, filePath |-> match.filePath,
                       localPath |-> match.localPath,
                       localPathWithQuery |-> match.localPathWithQuery, metadata |-> meta])

\* the scan of one document: the asset map after visiting strs, and whether the visit threw
RECURSIVE scanStrings(_, _, _, _)
scanStrings(strs, amap, useManifest, m) ==
    IF Len(strs) = 0 THEN [map |-> amap, threw |-> FALSE]
    ELSE LET match == resolveMediaPath(strs[1])
         IN  IF match.kind = "throw" THEN [map |-> amap, threw |-> TRUE]
             ELSE IF match.kind = "null" THEN scanStrings(Tail(strs), amap, useManifest, m)
             ELSE scanStrings(Tail(strs),
                      registerAsset(amap, match,
                          IF useManifest THEN Lookup(m, match.cacheKey) ELSE NullMeta),
                      useManifest, m)

(***************************************************************************)
(* downloadAsset (lines 538-665): the pure parts.                          *)
(***************************************************************************)
DefaultMaxRetries == 3
DefaultRetryDelay == 1000

\* options.maxRetries || 3 and options.retryDelay || 1000 (lines 876-877)
maxRetriesOf(o) == IF o.maxRetries = 0 THEN DefaultMaxRetries ELSE o.maxRetries
retryDelayOf(o) == IF o.retryDelay = 0 THEN DefaultRetryDelay ELSE o.retryDelay

\* Boolean(options.skipUnchanged && manifestPath) (line 794)
skipUnchangedOf(o) == o.skipUnchanged /\ o.cacheManifest

Truthy(x) == x \notin {"absent", "undef", ""}

conditionalHeaders_never(asset, skipUnchanged, files) == "none"

conditionalHeaders_ignoresFile(asset, skipUnchanged, files) ==
    IF ~(skipUnchanged /\ asset.metadata.has) THEN "none"
    ELSE IF Truthy(asset.metadata.etag) /\ Truthy(asset.metadata.lastModified) THEN "both"
    ELSE IF Truthy(asset.metadata.etag) THEN "etag"
    ELSE IF Truthy(asset.metadata.lastModified) THEN "lm"
    ELSE "none"

\* the conditional headers of every request of the asset (lines 547-559):
\* "none", or which of If-None-Match (etag) and If-Modified-Since (lm) are sent
conditionalHeaders(asset, skipUnchanged, files) ==
    LET fileExists == files[asset.filePath] # "absent"
        hasMetadata == asset.metadata.has
                        /\ (Truthy(asset.metadata.etag) \/ Truthy(asset.metadata.lastModified))
        shouldUseConditional == skipUnchanged /\ fileExists /\ hasMetadata
    IN  IF ~shouldUseConditional THEN "none"
        ELSE IF Truthy(asset.metadata.etag) /\ Truthy(asset.metadata.lastModified) THEN "both"
        ELSE IF Truthy(asset.metadata.etag) THEN "etag"
        ELSE "lm"

\* response.ok
responseOk(status) == status >= 200 /\ status <= 299

\* the statuses that are thrown without a retry (lines 588-592)
isClientError_4xxRetried(status) == FALSE

isClientError(status) == status >= 400 /\ status < 500 /\ status # 429

\* the errors the catch block retries (lines 626-634): an abort, or a message that
\* includes one of the four network error texts
isRetriable_abortOnly(err) == err = "AbortError"

isRetriable(err) ==
    err \in {"AbortError", "socket hang up", "ECONNRESET", "ETIMEDOUT", "ECONNREFUSED"}

\* attempt < maxRetries (lines 597 and 636)
attemptsRemain(attempt, maxRetries) == attempt < maxRetries

\* retryDelay * attempt (lines 598 and 637)
backoffDelay_constant(retryDelay, attempt) == retryDelay

backoffDelay(retryDelay, attempt) == retryDelay * attempt

\* the metadata returned for a 304 (lines 578-581): { ...(asset.metadata || {}), checkedAt }
notModifiedMetadata_fresh(asset, o) ==
    [NullMeta EXCEPT !.has = TRUE, !.etag = o.etag, !.lastModified = o.lastModified,
                     !.checkedAt = Now]

notModifiedMetadata(asset, o) ==
    [asset.metadata EXCEPT !.has = TRUE, !.checkedAt = Now]

\* the metadata returned for a 2xx (lines 611-618)
BodySize == 2

downloadedMetadata(o) ==
    [has |-> TRUE, etag |-> o.etag, lastModified |-> o.lastModified, size |-> BodySize,
     downloadedAt |-> Now, checkedAt |-> Now, remoteUrl |-> <<>>, localPath |-> <<>>]

NoResult == [status |-> "none", metadata |-> NullMeta]
Failed == [status |-> "failed", metadata |-> NullMeta]

Ev(e, n, x) == [e |-> e, n |-> n, s |-> x]

(***************************************************************************)
(* downloadAsset as the frame of the worker that called it.  A frame is    *)
(* suspended at "fetch" (await fetch), "body" (await arrayBuffer), "write" *)
(* (await writeFile) or "sleep" (the backoff); at "resume" downloadAsset   *)
(* has returned and the worker's continuation is queued.                   *)
(***************************************************************************)
Frame(pcw, a, attempt, cond, result) ==
    [pc |-> pcw, a |-> a, attempt |-> attempt, cond |-> cond, result |-> result]

ExitedFrame == Frame("exited", 0, 0, "none", NoResult)

\* the head of the for loop (line 561) for the given attempt: a request, or line 664
enterAttempt(f, attempt, o) ==
    IF attempt <= maxRetriesOf(o)
        THEN [frame |-> [f EXCEPT !.pc = "fetch", !.attempt = attempt],
              events |-> <<Ev("request", attempt, f.cond)>>]
    ELSE [frame |-> [f EXCEPT !.pc = "resume", !.attempt = attempt, !.result = Failed],
          events |-> <<Ev("return", 0, "failed")>>]

\* the catch block (lines 622-655) for an error raised in the given attempt
catchError_retryAny(f, err, o) ==
    IF attemptsRemain(f.attempt, maxRetriesOf(o))
        THEN [frame |-> [f EXCEPT !.pc = "sleep"],
              events |-> <<Ev("sleep", backoffDelay(retryDelayOf(o), f.attempt), "")>>]
    ELSE [frame |-> [f EXCEPT !.pc = "resume", !.result = Failed],
          events |-> <<Ev("return", 0, "failed")>>]

catchError(f, err, o) ==
    IF isRetriable(err) /\ attemptsRemain(f.attempt, maxRetriesOf(o))
        THEN [frame |-> [f EXCEPT !.pc = "sleep"],
              events |-> <<Ev("sleep", backoffDelay(retryDelayOf(o), f.attempt), "")>>]
    ELSE [frame |-> [f EXCEPT !.pc = "resume", !.result = Failed],
          events |-> <<Ev("return", 0, "failed")>>]

\* lines 577-606: what a response with the given status leads to
onStatus(f, status, asset, o, e) ==
    IF status = 304
        THEN [frame |-> [f EXCEPT !.pc = "resume",
                                  !.result = [status |-> "skipped",
                                              metadata |-> notModifiedMetadata(asset, e)]],
              events |-> <<Ev("return", 0, "skipped")>>]
    ELSE IF responseOk(status) THEN [frame |-> [f EXCEPT !.pc = "body"], events |-> <<>>]
    ELSE IF isClientError(status) THEN catchError(f, "HTTP", o)
    ELSE IF attemptsRemain(f.attempt, maxRetriesOf(o))
        THEN [frame |-> [f EXCEPT !.pc = "sleep"],
              events |-> <<Ev("sleep", backoffDelay(retryDelayOf(o), f.attempt), "")>>]
    ELSE catchError(f, "HTTP", o)

\* how the try block can go on up to the settlement of fetch (lines 566-572):
\* ensureDirectoryExists throws, or the origin and the network answer the request with
\* a status (304 only to a conditional request) or fetch rejects
Replies(e, cond) ==
    {[n |-> st, err |-> ""] : st \in (e.statuses \ (IF cond = "none" THEN {304} ELSE {}))}
        \cup {[n |-> 0, err |-> x] : x \in e.errors \cup e.mkdirErrors}

\* what an origin whose content does not change answers: 503 to the first request for
\* an asset it is busy with, 404 for an asset it does not have, 304 to a conditional
\* request whose validator is the current one (If-None-Match decides when both headers
\* are sent), 200 otherwise
HonestReplies(e, asset, cond, attempt) ==
    LET status == IF asset.cacheKey \in e.busy /\ attempt = 1 THEN 503
                  ELSE IF asset.cacheKey \in e.gone THEN 404
                  ELSE IF cond \in {"etag", "both"}
                      THEN (IF asset.metadata.etag = e.etag THEN 304 ELSE 200)
                  ELSE IF cond = "lm"
                      THEN (IF asset.metadata.lastModified = e.lastModified THEN 304 ELSE 200)
                  ELSE 200
    IN  {[n |-> status, err |-> ""]}

InFlight(f) == f.pc \in {"fetch", "body", "write", "sleep"}

controllerOf_shared(f) == <<f.a, 0>>

\* const controller = new AbortController() (line 562): one for each attempt of each asset
controllerOf(f) == <<f.a, f.attempt>>

\* the timer of an attempt is armed from setTimeout (line 569) until the finally block
\* (lines 656-661), which runs when the attempt returns or continues, after the
\* backoff sleep
timerArmed(f) == InFlight(f)

\* how a promise that takes the signal (fetch, line 572; the body, line 608) can
\* settle: it rejects with an AbortError once its controller has aborted
settlements(f, aborted, open, abort) ==
    IF controllerOf(f) \in aborted THEN {abort} ELSE open

(***************************************************************************)
(* downloadWithConcurrency (lines 676-746).                                *)
(***************************************************************************)
\* options.concurrency as the hook hands it over (line 874): the number given,
\* or a value that is not a number (undefined when the option is missing),
\* which Math.max and Math.min turn into NaN
NaN == [nan |-> TRUE, v |-> 0]

concurrencyOf(o) == IF o.concurrencyIsNumber THEN [nan |-> FALSE, v |-> o.concurrency] ELSE NaN

\* Math.min(Math.max(1, concurrency), assets.length) (lines 695 and 704);
\* Array.from({ length: NaN }) is empty
workerCount_unbounded(concurrency, n) == n

workerCount(concurrency, n) ==
    IF concurrency.nan THEN 0
    ELSE LET boundedConcurrency == IF concurrency.v > 1 THEN concurrency.v ELSE 1
         IN  IF boundedConcurrency < n THEN boundedConcurrency ELSE n

\* index++ (line 708)
advanceIndex_stuck(i) == i

advanceIndex(i) == i + 1

claimNext_serial(st, w, amap, o, skipUnch, files) ==
    IF st.index < Len(amap) /\ \A v \in DOMAIN st.frames : v = w \/ ~InFlight(st.frames[v])
        THEN LET a == st.index + 1
                 started == enterAttempt(
                                Frame("fetch", a, 1,
                                      conditionalHeaders(amap[a], skipUnch, files), NoResult),
                                1, o)
             IN  [index |-> advanceIndex(st.index),
                  frames |-> [st.frames EXCEPT ![w] = started.frame],
                  log |-> [st.log EXCEPT ![a] = @ \o started.events],
                  calls |-> [st.calls EXCEPT ![a] = @ + 1]]
    ELSE [st EXCEPT !.frames[w] = ExitedFrame]

\* the head of the worker loop (lines 707-720): claims the next asset and runs
\* downloadAsset up to its first await, or leaves the loop.  st holds index, the
\* frames and the history touched.
claimNext(st, w, amap, o, skipUnch, files) ==
    IF st.index < Len(amap)
        THEN LET a == st.index + 1
                 started == enterAttempt(
                                Frame("fetch", a, 1,
                                      conditionalHeaders(amap[a], skipUnch, files), NoResult),
                                1, o)
             IN  [index |-> advanceIndex(st.index),
                  frames |-> [st.frames EXCEPT ![w] = started.frame],
                  log |-> [st.log EXCEPT ![a] = @ \o started.events],
                  calls |-> [st.calls EXCEPT ![a] = @ + 1]]
    ELSE [st EXCEPT !.frames[w] = ExitedFrame]

\* Array.from({ length }, ...): the workers start one after the other
RECURSIVE startWorkers(_, _, _, _, _, _, _)
startWorkers(st, w, k, amap, o, skipUnch, files) ==
    IF w > k THEN st
    ELSE startWorkers(claimNext(st, w, amap, o, skipUnch, files), w + 1, k,
                      amap, o, skipUnch, files)

\* lines 721-739: the counters and the manifest deltas after one result
aggregate(c, result) ==
    IF result.status = "downloaded" THEN [c EXCEPT !.success = @ + 1]
    ELSE IF result.status = "skipped" THEN [c EXCEPT !.skipped = @ + 1]
    ELSE [c EXCEPT !.failed = @ + 1]

(***************************************************************************)
(* netlifyHybridImagesSetup (lines 748-978) and the workers, as actions.   *)
(***************************************************************************)
Finish(how) ==
    /\ pc' = "done"
    /\ hist' = [hist EXCEPT !.end = how]

\* handleNetlifyError(logger, error, false): true, after a warning, in a hosted Netlify
\* build; false in a local build
handleNetlifyError(e) == e.netlify

\* the catch of the hook (lines 972-977): the error is swallowed or thrown to the caller
Throw(err) ==
    /\ pc' = "done"
    /\ hist' = [hist EXCEPT !.end = IF handleNetlifyError(env) THEN "warned" ELSE "rethrown",
                            !.error = err]

\* the object of line 779
EmptyObject == [kind |-> "object", m |-> <<>>]

\* JSON.parse of the manifest file (lines 783-784): whatever JSON value the file holds;
\* a missing or unparsable file throws and leaves the empty object.  m holds the named
\* properties of the value.
parseManifest(file) ==
    IF file.kind = "map" THEN [kind |-> "object", m |-> file.m]
    ELSE IF file.kind \in {"array", "null", "scalar"} THEN [kind |-> file.kind, m |-> <<>>]
    ELSE EmptyObject

earlyReturn_ignoresEnabled(o) ==
    IF ~o.kirbyDefined THEN "nourl" ELSE ""

\* lines 759-770: the two early returns, "" when the hook goes on
earlyReturn(o) ==
    IF ~o.enabled THEN "disabled"
    ELSE IF ~o.kirbyDefined THEN "nourl"
    ELSE ""

\* lines 759-770: the enabled and KIRBY_URL checks
Start ==
    /\ pc = "idle"
    /\ IF earlyReturn(opts) # "" THEN Finish(earlyReturn(opts))
       ELSE pc' = "load" /\ UNCHANGED hist
    /\ UNCHANGED <<resolverVars, font, mw, opts, env, diskVars, schedVars,
                   manifest, scanIdx, assetMap, fileEntries, rewriteIdx>>

\* lines 776-792: the manifest is read when a manifest path is configured; a missing
\* or unparsable file leaves the empty object
LoadManifest ==
    /\ pc = "load"
    /\ manifest' = IF opts.cacheManifest THEN parseManifest(manifestFile) ELSE EmptyObject
    /\ hist' = [hist EXCEPT !.manifestReads = IF opts.cacheManifest THEN @ + 1 ELSE @]
    /\ pc' = "content"
    /\ UNCHANGED <<resolverVars, font, mw, opts, env, diskVars, schedVars,
                   scanIdx, assetMap, fileEntries, rewriteIdx>>

\* lines 796-812: the content directory and its JSON files
CheckContent ==
    /\ pc = "content"
    /\ pc' = IF ~env.contentDir \/ Len(docFiles) = 0 THEN "done" ELSE "scan"
    /\ hist' = [hist EXCEPT !.mkdirs = @ + 1,
                            !.end = IF ~env.contentDir THEN "nocontent"
                                    ELSE IF Len(docFiles) = 0 THEN "nojson" ELSE @]
    /\ UNCHANGED <<resolverVars, font, mw, opts, env, diskVars, schedVars,
                   manifest, scanIdx, assetMap, fileEntries, rewriteIdx>>

collectEntry_keepsBad(entries, idx, file, threw) ==
    IF ~threw THEN Append(entries, [file |-> idx, data |-> file.data]) ELSE entries

\* lines 824-856: fileEntries.push is reached only when the read, the parse and the
\* traversal all returned; the catch skips the file
collectEntry(entries, idx, file, threw) ==
    IF file.ok /\ ~threw THEN Append(entries, [file |-> idx, data |-> file.data]) ELSE entries

\* lines 823-857: one iteration of the scan loop
ScanFile ==
    /\ pc = "scan"
    /\ scanIdx < Len(docFiles)
    /\ LET file == docFiles[scanIdx + 1]
           scanned == scanStrings(Strings(file.data), assetMap,
                                  opts.cacheManifest /\ manifest.kind # "null", manifest.m)
           entries == collectEntry(fileEntries, scanIdx + 1, file, scanned.threw)
       IN  /\ assetMap' = IF file.ok THEN scanned.map ELSE assetMap
           /\ fileEntries' = entries
           /\ hist' = [hist EXCEPT !.docReads = @ + 1,
                                   !.skipped = IF entries = fileEntries
                                                   THEN @ \cup {scanIdx + 1} ELSE @]
    /\ scanIdx' = scanIdx + 1
    /\ pc' = IF scanIdx + 1 = Len(docFiles) THEN "launch" ELSE "scan"
    /\ UNCHANGED <<resolverVars, font, mw, opts, env, diskVars, schedVars, manifest, rewriteIdx>>

\* lines 859-880 and 685-742: no asset ends the run; otherwise the workers are
\* created and each runs up to its first await
Launch ==
    /\ pc = "launch"
    /\ IF Len(assetMap) = 0
           THEN Finish("noassets") /\ UNCHANGED schedVars
       ELSE LET n == Len(assetMap)
                k == workerCount(concurrencyOf(opts), n)
                st == startWorkers([index |-> 0,
                                    frames |-> [w \in 1..k |-> ExitedFrame],
                                    log |-> [a \in 1..n |-> <<>>],
                                    calls |-> [a \in 1..n |-> 0]],
                                   1, k, assetMap, opts, skipUnchangedOf(opts), assetFiles)
            IN  /\ pc' = "download"
                /\ index' = st.index
                /\ workers' = st.frames
                /\ hist' = [hist EXCEPT !.log = st.log, !.calls = st.calls, !.launched = k]
                /\ UNCHANGED <<counters, manifestUpdates, manifestRemovals>>
    /\ UNCHANGED <<resolverVars, font, mw, opts, env, diskVars,
                   manifest, scanIdx, assetMap, fileEntries, rewriteIdx>>

\* await fetch settles (lines 572-606 and the catch block)
Respond(w) ==
    /\ pc = "download"
    /\ workers[w].pc = "fetch"
    /\ \E r \in settlements(workers[w], hist.aborted,
                           IF env.honest
                               THEN HonestReplies(env, assetMap[workers[w].a], workers[w].cond,
                                                  workers[w].attempt)
                           ELSE Replies(env, workers[w].cond),
                           [n |-> 0, err |-> "AbortError"]) :
          LET f == workers[w]
              after == IF r.err # "" THEN catchError(f, r.err, opts)
                       ELSE onStatus(f, r.n, assetMap[f.a], opts, env)
          IN  /\ workers' = [workers EXCEPT ![w] = after.frame]
              /\ hist' = [hist EXCEPT !.log[f.a] = @ \o <<Ev("response", r.n, r.err)>>
                                                     \o after.events]
    /\ UNCHANGED <<resolverVars, font, mw, opts, env, diskVars, hookVars,
                   index, counters, manifestUpdates, manifestRemovals>>

\* await response.arrayBuffer() settles (line 608)
ReadBody(w) ==
    /\ pc = "download"
    /\ workers[w].pc = "body"
    /\ \E r \in settlements(workers[w], hist.aborted, {"ok"} \cup env.bodyErrors, "AbortError") :
          LET f == workers[w]
              after == IF r = "ok" THEN [frame |-> [f EXCEPT !.pc = "write"], events |-> <<>>]
                       ELSE catchError(f, r, opts)
          IN  /\ workers' = [workers EXCEPT ![w] = after.frame]
              /\ hist' = [hist EXCEPT !.log[f.a] = @ \o <<Ev("body", 0, r)>> \o after.events]
    /\ UNCHANGED <<resolverVars, font, mw, opts, env, diskVars, hookVars,
                   index, counters, manifestUpdates, manifestRemovals>>

\* await writeFile settles (lines 609-621)
WriteAsset(w) ==
    /\ pc = "download"
    /\ workers[w].pc = "write"
    /\ \E r \in {"ok"} \cup env.writeErrors :
          LET f == workers[w]
              after == IF r = "ok"
                           THEN [frame |-> [f EXCEPT !.pc = "resume",
                                                     !.result = [status |-> "downloaded",
                                                                 metadata |-> downloadedMetadata(env)]],
                                 events |-> <<Ev("return", 0, "downloaded")>>]
                       ELSE catchError(f, r, opts)
          IN  /\ workers' = [workers EXCEPT ![w] = after.frame]
              /\ assetFiles' = [assetFiles EXCEPT ![assetMap[f.a].filePath] =
                                   IF r = "ok" THEN "new" ELSE "partial"]
              /\ hist' = [hist EXCEPT !.log[f.a] = @ \o <<Ev("write", 0, r)>> \o after.events]
    /\ UNCHANGED <<resolverVars, font, mw, opts, env, docFiles, manifestFile, hookVars,
                   index, counters, manifestUpdates, manifestRemovals>>

\* the backoff timer fires (lines 602-603 and 642-643): continue with the next attempt
WakeUp(w) ==
    /\ pc = "download"
    /\ workers[w].pc = "sleep"
    /\ LET f == workers[w]
           after == enterAttempt(f, f.attempt + 1, opts)
       IN  /\ workers' = [workers EXCEPT ![w] = after.frame]
           /\ hist' = [hist EXCEPT !.log[f.a] = @ \o after.events]
    /\ UNCHANGED <<resolverVars, font, mw, opts, env, diskVars, hookVars,
                   index, counters, manifestUpdates, manifestRemovals>>

\* the timer of the attempt fires (line 569): controller.abort()
TimerFires(w) ==
    /\ pc = "download"
    /\ timerArmed(workers[w])
    /\ \A t \in hist.fired : <<t.a, t.attempt>> # <<workers[w].a, workers[w].attempt>>
    /\ hist' = [hist EXCEPT !.fired = @ \cup {[a |-> workers[w].a,
                                                attempt |-> workers[w].attempt,
                                                at |-> workers[w].pc]},
                            !.aborted = @ \cup {controllerOf(workers[w])}]
    /\ UNCHANGED <<resolverVars, font, mw, opts, env, diskVars, hookVars, schedVars>>

\* the worker continues after await downloadAsset (lines 721-739), then loops
WorkerResume(w) ==
    /\ pc = "download"
    /\ workers[w].pc = "resume"
    /\ LET f == workers[w]
           asset == assetMap[f.a]
           st == claimNext([index |-> index, frames |-> workers,
                            log |-> hist.log, calls |-> hist.calls],
                           w, assetMap, opts, skipUnchangedOf(opts), assetFiles)
       IN  /\ counters' = aggregate(counters, f.result)
           /\ manifestUpdates' =
                 IF f.result.metadata.has
                     THEN SetKey(manifestUpdates, asset.cacheKey,
                                 [f.result.metadata EXCEPT !.remoteUrl = asset.remoteUrl,
                                                           !.localPath = asset.localPath])
                 ELSE manifestUpdates
           /\ manifestRemovals' = IF f.result.status = "failed"
                                      THEN manifestRemovals \cup {asset.cacheKey}
                                  ELSE manifestRemovals
           /\ index' = st.index
           /\ workers' = st.frames
           /\ hist' = [hist EXCEPT !.log = st.log, !.calls = st.calls]
    /\ UNCHANGED <<resolverVars, font, mw, opts, env, diskVars, hookVars>>

applyUpdates_rebuilt(m, updates) == updates

RECURSIVE applyUpdates(_, _)
applyUpdates(m, updates) ==
    IF Len(updates) = 0 THEN m
    ELSE applyUpdates(SetKey(m, updates[1].key, Spread(Lookup(m, updates[1].key), updates[1].e)),
                      Tail(updates))

RECURSIVE applyRemovals(_, _)
applyRemovals(m, removals) ==
    IF removals = {} THEN m
    ELSE LET k == CHOOSE x \in removals : TRUE
         IN  applyRemovals(DeleteKey(m, k), removals \ {k})

AllExited_anyExited == \E w \in DOMAIN workers : workers[w].pc = "exited"

\* await Promise.all(workers) (line 744) resolves when every worker has returned
AllExited == \A w \in DOMAIN workers : workers[w].pc = "exited"

\* lines 901-912 on a manifest that is not an object: null has no properties to read,
\* and a property of a number, string or boolean cannot be assigned in a module
mergeThrows(mf, updates, removals) ==
    \/ Len(updates) > 0 /\ mf.kind \in {"null", "scalar"}
    \/ removals # {} /\ mf.kind = "null"

\* manifestChanged (lines 899-912)
manifestChanged_always(m, updates, removals) == TRUE

manifestChanged(m, updates, removals) ==
    Len(updates) > 0 \/ \E k \in removals : HasKey(m, k)

\* JSON.stringify drops the properties whose value is undefined
stringifyEntry(e) ==
    [e EXCEPT !.etag = IF @ = "undef" THEN "absent" ELSE @,
              !.lastModified = IF @ = "undef" THEN "absent" ELSE @]

\* JSON.stringify(manifest, null, 2) (line 918): an object with its entries, an array
\* with its elements and none of its named properties
stringifyManifest(mf) ==
    IF mf.kind = "object"
        THEN [kind |-> "map",
              m |-> [i \in 1..Len(mf.m) |-> [key |-> mf.m[i].key, e |-> stringifyEntry(mf.m[i].e)]]]
    ELSE [kind |-> mf.kind, m |-> <<>>]

\* Promise.all settles; lines 882-925: the manifest merge and write-back
SaveManifest ==
    /\ pc = "download"
    /\ AllExited
    /\ IF ~opts.cacheManifest
           THEN /\ pc' = "decide"
                /\ hist' = [hist EXCEPT !.saved = TRUE]
                /\ UNCHANGED <<manifest, manifestFile>>
       ELSE IF mergeThrows(manifest, manifestUpdates, manifestRemovals)
           THEN Throw("TypeError") /\ UNCHANGED <<manifest, manifestFile>>
       ELSE LET merged == [manifest EXCEPT !.m =
                              applyRemovals(applyUpdates(@, manifestUpdates), manifestRemovals)]
                changed == manifestChanged(manifest.m, manifestUpdates, manifestRemovals)
            IN  /\ manifest' = merged
                /\ \E r \in {"ok"} \cup env.hookWriteErrors :
                      IF ~changed
                          THEN /\ pc' = "decide"
                               /\ hist' = [hist EXCEPT !.saved = TRUE]
                               /\ UNCHANGED manifestFile
                      ELSE IF r = "ok"
                          THEN /\ manifestFile' = stringifyManifest(merged)
                               /\ hist' = [hist EXCEPT !.manifestWrites = @ + 1,
                                                       !.mkdirs = @ + 1, !.saved = TRUE]
                               /\ pc' = "decide"
                      ELSE /\ Throw(r)
                           /\ UNCHANGED manifestFile
    /\ UNCHANGED <<resolverVars, font, mw, opts, env, docFiles, assetFiles, schedVars,
                   scanIdx, assetMap, fileEntries, rewriteIdx>>

\* the guard of the rewrite: downloadResult.failed > 0 (line 927)
rewriteSuppressed_never(c) == FALSE

rewriteSuppressed(c) == c.failed > 0

\* lines 927-936
Decide ==
    /\ pc = "decide"
    /\ IF rewriteSuppressed(counters) THEN Finish("aborted")
       ELSE IF ~opts.rewriteContent \/ Len(fileEntries) = 0 THEN Finish("completed")
       ELSE pc' = "rewrite" /\ UNCHANGED hist
    /\ UNCHANGED <<resolverVars, font, mw, opts, env, diskVars, schedVars,
                   manifest, scanIdx, assetMap, fileEntries, rewriteIdx>>

\* lines 938-962: one iteration of the rewrite loop
RewriteFile ==
    /\ pc = "rewrite"
    /\ rewriteIdx < Len(fileEntries)
    /\ LET entry == fileEntries[rewriteIdx + 1]
           result == transformContent(entry.data)
           last == rewriteIdx + 1 = Len(fileEntries)
       IN  /\ fileEntries' = [fileEntries EXCEPT ![rewriteIdx + 1].data = result.value]
           /\ \E r \in {"ok"} \cup env.hookWriteErrors :
                 IF result.modified /\ r # "ok"
                     THEN Throw(r) /\ UNCHANGED docFiles
                 ELSE /\ docFiles' = IF result.modified
                                         THEN [docFiles EXCEPT ![entry.file] =
                                                  [ok |-> TRUE, data |-> result.value]]
                                     ELSE docFiles
                      /\ pc' = IF last THEN "done" ELSE "rewrite"
                      /\ hist' = [hist EXCEPT !.docWrites[entry.file] =
                                                  IF result.modified THEN @ + 1 ELSE @,
                                              !.end = IF last THEN "completed" ELSE @]
    /\ rewriteIdx' = rewriteIdx + 1
    /\ UNCHANGED <<resolverVars, font, mw, opts, env, assetFiles, manifestFile, schedVars,
                   manifest, scanIdx, assetMap>>

(***************************************************************************)
(* fontDownloader (part_006): the 'astro:config:setup' hook, which the     *)
(* build runs before 'astro:build:start'.  While it runs pc = "config".    *)
(***************************************************************************)
FontMaxRetries == 1
DefaultFontMaxRetries == 3
DefaultFontRetryDelay == 1000

\* a rejection of fetch (the abort of the timeout included), or a response that is not
\* ok (lines 37-48)
FontFetchErrors == {"HTTP 500", "ECONNRESET", "AbortError"}

\* baseDelay * Math.pow(2, attempt) (line 17)
fontBackoff_constant(baseDelay, attempt) == baseDelay

fontBackoff(baseDelay, attempt) == baseDelay * (2 ^ attempt)

FontEvent(ev, r, ms) == [ev |-> ev, r |-> r, ms |-> ms]

\* retryWithBackoff after fn() threw in attempt f.attempt (lines 14-19 and 22): a sleep
\* while attempt < maxRetries, else the last error is thrown
attemptFailed_oneFewer(f, err) ==
    LET cur == Append(f.cur, FontEvent("fetch", err, 0))
    IN  IF f.attempt + 1 < f.cfg.maxRetries
            THEN [f EXCEPT !.pc = "sleep",
                           !.cur = Append(cur, FontEvent("sleep", "",
                                       fontBackoff(f.cfg.retryDelay, f.attempt)))]
        ELSE [f EXCEPT !.pc = "thrown", !.cur = cur]

attemptFailed(f, err) ==
    LET cur == Append(f.cur, FontEvent("fetch", err, 0))
    IN  IF f.attempt < f.cfg.maxRetries
            THEN [f EXCEPT !.pc = "sleep",
                           !.cur = Append(cur, FontEvent("sleep", "",
                                       fontBackoff(f.cfg.retryDelay, f.attempt)))]
        ELSE [f EXCEPT !.pc = "thrown", !.cur = cur]

\* retryWithBackoff returns what fn() returned (line 13)
attemptSucceeded(f) ==
    [f EXCEPT !.pc = "returned", !.cur = Append(@, FontEvent("fetch", "ok", 0))]

\* downloadFont has settled: its attempts and sleeps are kept for the properties
settled(f, what, result) ==
    [f EXCEPT !.dls = Append(@, [what |-> what, log |-> f.cur, result |-> result,
                                 maxRetries |-> f.cfg.maxRetries,
                                 retryDelay |-> f.cfg.retryDelay]),
              !.cur = <<>>, !.attempt = 0]

\* the catch of the hook (lines 270-288): the error is logged; on Netlify a warning
\* follows and the hook returns, elsewhere the error is thrown again
catchFont_alwaysRethrows(f, err, e) ==
    [f EXCEPT !.pc = "done", !.error = err, !.end = "rethrown"]

catchFont(f, err, e) ==
    [f EXCEPT !.pc = "done", !.error = err,
              !.end = IF e.netlify THEN "warned" ELSE "rethrown"]

\* what the build does when the hook has settled: an exception out of a hook ends the
\* build, a normal return lets it go on to 'astro:build:start'
buildAfterFont(f) ==
    IF f.pc # "done" THEN "config"
    ELSE IF f.end = "rethrown" THEN "done" ELSE "idle"

\* font.url1 / font.url2 of the font the loop stands at
UrlOf(f) ==
    IF f.fmt = 1 THEN f.cfg.fonts[f.k + 1].url1 ELSE f.cfg.fonts[f.k + 1].url2

\* lines 228-243: the font is listed when one of its formats was downloaded
pushFont_always(f) ==
    [f EXCEPT !.data = Append(@, [name |-> f.cfg.fonts[f.k + 1].name,
                                  woff |-> f.woff, woff2 |-> f.woff2])]

pushFont(f) ==
    IF f.woff # "null" \/ f.woff2 # "null"
        THEN [f EXCEPT !.data = Append(@, [name |-> f.cfg.fonts[f.k + 1].name,
                                           woff |-> f.woff, woff2 |-> f.woff2])]
    ELSE f

\* lines 153-248 between two downloads: a format without a URL is passed over, after
\* the second format the font is listed or skipped and the loop takes the next font;
\* after the last font comes the save
RECURSIVE nextFile(_)
nextFile(f) ==
    IF f.k = Len(f.cfg.fonts) THEN [f EXCEPT !.pc = "save"]
    ELSE IF f.fmt = 3
        THEN nextFile([pushFont(f) EXCEPT !.k = @ + 1, !.fmt = 1,
                                          !.woff = "null", !.woff2 = "null"])
    ELSE IF UrlOf(f) # "" THEN [f EXCEPT !.pc = "file", !.attempt = 0]
    ELSE nextFile([f EXCEPT !.fmt = @ + 1])

\* lines 161-194 and 195-228: the try of one format has ended, with the public path of
\* the file or, from its catch, with null
fileDone(f, path) ==
    nextFile([f EXCEPT !.woff = IF f.fmt = 1 THEN path ELSE @,
                       !.woff2 = IF f.fmt = 2 THEN path ELSE @,
                       !.fmt = @ + 1])

\* lines 78-104: KIRBY_URL, the fonts directory, the removal of the old font files
FontSetup ==
    /\ pc = "config"
    /\ font.pc = "idle"
    /\ IF ~opts.kirbyDefined
           THEN font' = [font EXCEPT !.pc = "done", !.end = "nourl"]
       ELSE \E r \in {"ok"} \cup font.cfg.fsErrors :
               font' = IF r # "ok" THEN catchFont(font, r, env)
                       ELSE [font EXCEPT !.pc = "global", !.dir = {}]
    /\ pc' = buildAfterFont(font')
    /\ UNCHANGED <<resolverVars, mw, opts, env, diskVars, schedVars,
                   manifest, scanIdx, assetMap, fileEntries, rewriteIdx, hist>>

\* lines 116-146 with downloadFont (28-58) and retryWithBackoff (9-23): one attempt at
\* global.json.  A failed attempt is followed by a sleep while attempts remain, else the
\* last error is thrown; a body is parsed and its font list read
FontFetchGlobal ==
    /\ pc = "config"
    /\ font.pc = "global"
    /\ \E reply \in font.cfg.globalReplies, r \in {"ok"} \cup font.cfg.fsErrors :
          LET failed == attemptFailed(font, reply)
              got == settled(attemptSucceeded(font), "global", "body")
          IN  font' = IF reply \in FontFetchErrors
                          THEN (IF failed.pc = "sleep" THEN failed
                                ELSE catchFont(settled(failed, "global", reply), reply, env))
                      ELSE IF reply = "not json" THEN catchFont(got, "SyntaxError", env)
                      ELSE IF reply = "null" THEN catchFont(got, "TypeError", env)
                      ELSE IF reply = "no fonts"
                          THEN (IF r # "ok" THEN catchFont(got, r, env)
                                ELSE [got EXCEPT !.pc = "done", !.end = "nofonts",
                                                 !.json = <<>>])
                      ELSE nextFile([got EXCEPT !.fmt = 1])
    /\ pc' = buildAfterFont(font')
    /\ UNCHANGED <<resolverVars, mw, opts, env, diskVars, schedVars,
                   manifest, scanIdx, assetMap, fileEntries, rewriteIdx, hist>>

\* lines 16-19: the backoff timer of retryWithBackoff fires, the next attempt starts
FontWakeUp ==
    /\ pc = "config"
    /\ font.pc = "sleep"
    /\ font' = [font EXCEPT !.pc = IF font.fmt = 0 THEN "global" ELSE "file",
                            !.attempt = @ + 1]
    /\ UNCHANGED <<resolverVars, buildVars, mw>>

\* lines 161-194 and 195-228 with downloadFont: one attempt at one format of one font.
\* A body is written under the base name of the URL; an error of the last attempt or of
\* the write is caught, warned about, and leaves the path of the format null
FontFetchFile ==
    /\ pc = "config"
    /\ font.pc = "file"
    /\ \E reply \in font.cfg.fileReplies, r \in {"ok"} \cup font.cfg.fsErrors :
          LET failed == attemptFailed(font, reply)
              got == settled(attemptSucceeded(font), UrlOf(font), "body")
          IN  font' = IF reply \in FontFetchErrors
                          THEN (IF failed.pc = "sleep" THEN failed
                                ELSE fileDone(settled(failed, UrlOf(font), reply), "null"))
                      ELSE IF r # "ok" THEN fileDone(got, "null")
                      ELSE fileDone([got EXCEPT !.dir = @ \cup {UrlOf(font)},
                                                !.written = @ \cup {UrlOf(font)}],
                                    UrlOf(font))
    /\ UNCHANGED <<resolverVars, buildVars, mw>>

\* lines 250-268: fonts.json is written after the last font
FontSave ==
    /\ pc = "config"
    /\ font.pc = "save"
    /\ \E r \in {"ok"} \cup font.cfg.fsErrors :
          font' = IF r # "ok" THEN catchFont(font, r, env)
                  ELSE [font EXCEPT !.pc = "done", !.end = "completed", !.json = font.data]
    /\ pc' = buildAfterFont(font')
    /\ UNCHANGED <<resolverVars, mw, opts, env, diskVars, schedVars,
                   manifest, scanIdx, assetMap, fileEntries, rewriteIdx, hist>>

\* the fonts that global.json lists
FontList ==
    <<[name |-> "f", url1 |-> "f.woff", url2 |-> "f.woff2"],
      [name |-> "g", url1 |-> "g.woff", url2 |-> ""]>>

\* a build whose 'astro:config:setup' is over
FontReturned ==
    [pc |-> "done", attempt |-> 0, k |-> 0, fmt |-> 0, woff |-> "null", woff2 |-> "null",
     data |-> <<>>, dir |-> {}, dir0 |-> {}, written |-> {}, json |-> <<>>, cur |-> <<>>,
     dls |-> <<>>, end |-> "completed", error |-> "",
     cfg |-> [maxRetries |-> 0, retryDelay |-> 0, fsErrors |-> {}, globalReplies |-> {},
              fileReplies |-> {}, fonts |-> <<>>]]

\* the hook before its first statement: what public/fonts holds (dir0 keeps the files
\* it held then) and what the run will meet
FontStarts(dirs, jsons, cfgs) ==
    {[f EXCEPT !.dir0 = f.dir] :
        f \in [pc : {"idle"}, attempt : {0}, k : {0}, fmt : {0}, woff : {"null"},
               woff2 : {"null"}, data : {<<>>}, dir : dirs, dir0 : {{}}, written : {{}},
               json : jsons, cur : {<<>>}, dls : {<<>>}, end : {""}, error : {""},
               cfg : cfgs]}

(***************************************************************************)
(* Middleware onRequest (src/middleware.ts).  A pathname is a sequence of  *)
(* tokens, "/" and "_" being tokens of their own and an extension one token.*)
(***************************************************************************)
EndsWith(s, p) ==
    /\ Len(s) >= Len(p)
    /\ SubSeq(s, Len(s) - Len(p) + 1, Len(s)) = p

\* lines 10-26: the paths the middleware passes on without looking at the toggle
skipsMiddleware(pathname) ==
    \/ pathname \in {<<"/", "maintenance">>, <<"/", "maintenance", "/">>,
                     <<"/", "error">>, <<"/", "error", "/">>,
                     <<"/", "404">>, <<"/", "404", "/">>}
    \/ StartsWith(pathname, <<"/", "preview", "/">>)
    \/ StartsWith(pathname, <<"/", "_">>)
    \/ StartsWith(pathname, <<"/", "api", "/">>)
    \/ \E ext \in {".json", ".xml", ".txt", ".ico"} : EndsWith(pathname, <<ext>>)
    \/ StartsWith(pathname, <<"/", "_", "astro", "/">>)
    \/ StartsWith(pathname, <<"/", "assets", "/">>)

\* globalData?.maintenanceToggle === true (line 42)
maintenanceActive_truthy(global) == global \in {"on", "truthy"}

maintenanceActive(global) == global = "on"

\* onRequest (lines 5-52): where the request goes, whether global.json was asked for and
\* whether the catch warned
onRequest(pathname, dev, global) ==
    IF skipsMiddleware(pathname) \/ dev
        THEN [to |-> "next", fetched |-> FALSE, warned |-> FALSE]
    ELSE IF global = "throws"
        THEN [to |-> "next", fetched |-> TRUE, warned |-> TRUE]
    ELSE IF maintenanceActive(global)
        THEN [to |-> "/maintenance", fetched |-> TRUE, warned |-> FALSE]
    ELSE [to |-> "next", fetched |-> TRUE, warned |-> FALSE]

\* no request is being served
NoRequest ==
    [pathname |-> <<>>, dev |-> FALSE, global |-> "off",
     out |-> [to |-> "next", fetched |-> FALSE, warned |-> FALSE]]

Pending == [to |-> "pending", fetched |-> FALSE, warned |-> FALSE]

OnRequest ==
    /\ mw.out = Pending
    /\ mw' = [mw EXCEPT !.out = onRequest(mw.pathname, mw.dev, mw.global)]
    /\ UNCHANGED <<resolverVars, buildVars, font>>

(***************************************************************************)
(* The builds explored: content, options, cache state and origin.          *)
(***************************************************************************)
MaxConcurrency == 2
MaxRetries == 3
FleetRetries == 2

sA == MediaPrefix \o <<"a">>
sAq == MediaPrefix \o <<"a", "?", "w">>
sB == MediaPrefix \o <<"b">>
sC == MediaPrefix \o <<"c">>
sDotA == MediaPrefix \o <<".", "/", "a">>
sUp == MediaPrefix \o <<".", ".", "/", "a">>
sBad == MediaPrefix \o <<"a", "%">>
sPlain == <<"a">>

DocHero == Obj(<<Str(sA)>>)
DocNested == Obj(<<Str(sAq), Arr(<<Str(sB), Num>>)>>)
DocDeep == Obj(<<Str(sB), Obj(<<Arr(<<Str(sC), Str(sDotA)>>)>>)>>)
DocPlain == Arr(<<Str(sPlain), Str(sUp)>>)
DocRoot == Str(sA)
DocThrows == Arr(<<Str(sB), Str(sBad)>>)

File(data) == [ok |-> TRUE, data |-> data]
Unparsable == [ok |-> FALSE, data |-> Num]

\* every asset file path the content above can name
AssetPaths ==
    {resolveMediaPath(x).filePath : x \in {sA, sB, sC}}

PrevEntry(name, etag, lastModified) ==
    [has |-> TRUE, etag |-> etag, lastModified |-> lastModified, size |-> 1,
     downloadedAt |-> "t0", checkedAt |-> "t0",
     remoteUrl |-> MediaPrefix \o <<name>>, localPath |-> <<"/">> \o MediaDir \o <<"/", name>>]

KeyOf(name) == MediaDir \o <<"/", name>>

\* the manifest a previous build left: entries for a, b, c and for z, which no content names
PrevManifest(etag, lastModified) ==
    [kind |-> "map",
     m |-> [i \in 1..4 |->
               LET name == <<"a", "b", "c", "z">>[i]
               IN  [key |-> KeyOf(name), e |-> PrevEntry(name, etag, lastModified)]]]

ManifestFiles ==
    {[kind |-> "missing", m |-> <<>>], [kind |-> "corrupt", m |-> <<>>],
     PrevManifest("e0", "m0"), PrevManifest("e0", "absent"), PrevManifest("absent", "m0"),
     PrevManifest("absent", "absent"),
     [kind |-> "map", m |-> <<[key |-> KeyOf("a"), e |-> PrevEntry("a", "e0", "m0")]>>]}

AssetDisks ==
    {[f \in AssetPaths |-> "absent"], [f \in AssetPaths |-> "old"],
     [f \in AssetPaths |-> IF f = resolveMediaPath(sA).filePath THEN "old" ELSE "absent"]}

Statuses == {200, 304, 400, 404, 429, 499, 500, 503}
NetworkErrors ==
    {"AbortError", "socket hang up", "ECONNRESET", "ETIMEDOUT", "ECONNREFUSED",
     "Premature close", "ENOTFOUND"}

\* the history at the start of a build: nothing done yet, the disk as it is found
FreshHistory(run, prev) ==
    [log |-> <<>>, calls |-> <<>>, docWrites |-> [i \in 1..Len(docFiles) |-> 0],
     manifestReads |-> 0, manifestWrites |-> 0, end |-> "", launched |-> 0,
     error |-> "", mkdirs |-> 0, docReads |-> 0, saved |-> FALSE, skipped |-> {},
     fired |-> {}, aborted |-> {},
     docs0 |-> docFiles, files0 |-> assetFiles, manifest0 |-> manifestFile,
     run |-> run, prev |-> prev]

\* the locals of netlifyHybridImagesSetup before its first statement
InitLocals ==
    /\ manifest = EmptyObject
    /\ scanIdx = 0
    /\ assetMap = <<>>
    /\ fileEntries = <<>>
    /\ rewriteIdx = 0
    /\ index = 0
    /\ counters = [success |-> 0, skipped |-> 0, failed |-> 0]
    /\ manifestUpdates = <<>>
    /\ manifestRemovals = {}
    /\ workers = <<>>
    /\ hist = FreshHistory(1, [end |-> "", failed |-> 0, saved |-> FALSE])

\* a build about to run 'astro:build:start'
InitHook ==
    /\ pc = "idle"
    /\ font = FontReturned
    /\ mw = NoRequest
    /\ InitLocals

\* the build that the resolver specification leaves untouched
IdleSite ==
    /\ opts = [enabled |-> FALSE, kirbyDefined |-> FALSE, concurrencyIsNumber |-> TRUE, concurrency |-> 1, maxRetries |-> 1,
               retryDelay |-> 0, skipUnchanged |-> FALSE, rewriteContent |-> FALSE,
               cacheManifest |-> FALSE]
    /\ env = [contentDir |-> FALSE, statuses |-> {}, errors |-> {}, bodyErrors |-> {},
              mkdirErrors |-> {}, writeErrors |-> {}, etag |-> "undef", lastModified |-> "undef",
              netlify |-> FALSE, hookWriteErrors |-> {}, now |-> "t1", honest |-> FALSE, gone |-> {}, busy |-> {}]
    /\ docFiles = <<>>
    /\ assetFiles = [f \in AssetPaths |-> "absent"]
    /\ manifestFile = [kind |-> "missing", m |-> <<>>]

IdleBuild ==
    /\ IdleSite
    /\ InitHook

\* one asset and one worker: the fetcher in full.  Either every answer of the origin
\* and of the network under every attempt limit, or every cache state with one attempt
FetchEnv(etags) ==
    [contentDir : {TRUE}, statuses : {Statuses}, errors : {NetworkErrors},
     bodyErrors : {{"AbortError", "Premature close"}},
     mkdirErrors : {{"EACCES"}}, writeErrors : {{"ENOSPC"}},
     etag : etags, lastModified : {"m1"},
     netlify : {TRUE}, hookWriteErrors : {{}}, now : {"t1"}, honest : {FALSE}, gone : {{}},
                      busy : {{}}]

InitFetch ==
    /\ url = <<>>
    /\ res = [kind |-> "pending"]
    /\ \/ /\ opts \in [enabled : {TRUE}, kirbyDefined : {TRUE}, concurrencyIsNumber : {TRUE}, concurrency : {1},
                       maxRetries : 0..MaxRetries, retryDelay : {0, 250},
                       skipUnchanged : {TRUE}, rewriteContent : {TRUE},
                       cacheManifest : {TRUE}]
          /\ env \in FetchEnv({"e1"})
          /\ manifestFile = PrevManifest("e0", "m0")
       \/ /\ opts \in [enabled : {TRUE}, kirbyDefined : {TRUE}, concurrencyIsNumber : {TRUE}, concurrency : {1},
                       maxRetries : {1}, retryDelay : {0},
                       skipUnchanged : BOOLEAN, rewriteContent : {TRUE},
                       cacheManifest : BOOLEAN]
          /\ env \in FetchEnv({"e1", "undef"})
          /\ manifestFile \in ManifestFiles
    /\ docFiles = <<File(DocHero)>>
    /\ assetFiles \in {[f \in AssetPaths |-> "absent"], [f \in AssetPaths |-> "old"]}
    /\ InitHook

\* several documents and assets, several workers, a small set of answers
FleetDocs ==
    {<<File(DocHero)>>, <<File(DocNested), File(DocHero)>>, <<File(DocDeep), File(DocNested)>>,
     <<File(DocPlain)>>, <<Unparsable, File(DocNested)>>, <<File(DocThrows), File(DocRoot)>>,
     <<>>}

InitFleet ==
    /\ url = <<>>
    /\ res = [kind |-> "pending"]
    /\ \/ opts \in [enabled : {TRUE}, kirbyDefined : {TRUE}, concurrencyIsNumber : {TRUE}, concurrency : 0..MaxConcurrency,
                    maxRetries : 1..FleetRetries, retryDelay : {0},
                    skipUnchanged : {TRUE}, rewriteContent : BOOLEAN,
                    cacheManifest : {TRUE}]
       \/ opts \in [enabled : BOOLEAN, kirbyDefined : BOOLEAN, concurrencyIsNumber : {TRUE}, concurrency : {MaxConcurrency},
                    maxRetries : {1}, retryDelay : {0},
                    skipUnchanged : BOOLEAN, rewriteContent : {TRUE},
                    cacheManifest : BOOLEAN]
    /\ env \in [contentDir : BOOLEAN, statuses : {{200, 304, 404, 503}}, errors : {{}},
                bodyErrors : {{}}, mkdirErrors : {{}}, writeErrors : {{}},
                etag : {"e1"}, lastModified : {"m1"},
                netlify : {TRUE}, hookWriteErrors : {{}}, now : {"t1"}, honest : {FALSE}, gone : {{}},
                      busy : {{}}]
    /\ docFiles \in FleetDocs
    /\ env.contentDir \/ docFiles = <<>>
    /\ assetFiles \in AssetDisks
    /\ manifestFile \in {[kind |-> "missing", m |-> <<>>], PrevManifest("e0", "m0")}
    /\ InitHook

Next ==
    \/ Start
    \/ LoadManifest
    \/ CheckContent
    \/ ScanFile
    \/ Launch
    \/ \E w \in DOMAIN workers : Respond(w)
    \/ \E w \in DOMAIN workers : ReadBody(w)
    \/ \E w \in DOMAIN workers : WriteAsset(w)
    \/ \E w \in DOMAIN workers : WakeUp(w)
    \/ \E w \in DOMAIN workers : WorkerResume(w)
    \/ SaveManifest
    \/ Decide
    \/ RewriteFile

Spec == InitFleet /\ [][Next]_vars

SpecFetch == InitFetch /\ [][Next]_vars

(***************************************************************************)
(* Specification of the cache: two documents, up to two assets and two     *)
(* workers, over every shape of manifest file, with and without disk       *)
(* errors, hosted and local.                                               *)
(***************************************************************************)
\* manifest files whose JSON value is not an object: [], null, a number or string
NonMappingFiles ==
    {[kind |-> "array", m |-> <<>>], [kind |-> "null", m |-> <<>>],
     [kind |-> "scalar", m |-> <<>>]}

CacheDocs ==
    {<<File(DocNested), File(DocHero)>>, <<File(DocRoot)>>, <<File(DocPlain), File(DocHero)>>,
     <<Unparsable, File(DocHero)>>, <<File(DocThrows), File(DocRoot)>>}

InitCache ==
    /\ url = <<>>
    /\ res = [kind |-> "pending"]
    /\ \/ /\ opts \in [enabled : {TRUE}, kirbyDefined : {TRUE}, concurrencyIsNumber : {TRUE}, concurrency : {2},
                       maxRetries : {1}, retryDelay : {0},
                       skipUnchanged : {TRUE}, rewriteContent : {TRUE},
                       cacheManifest : {TRUE}]
          /\ env \in [contentDir : {TRUE}, statuses : {{200, 304, 404}}, errors : {{}},
                      bodyErrors : {{}}, mkdirErrors : {{}}, writeErrors : {{}},
                      etag : {"e1"}, lastModified : {"m1"},
                      netlify : BOOLEAN, hookWriteErrors : {{}}, now : {"t1"}, honest : {FALSE}, gone : {{}},
                      busy : {{}}]
          /\ manifestFile \in ManifestFiles \cup NonMappingFiles
       \/ /\ opts \in [enabled : {TRUE}, kirbyDefined : {TRUE}, concurrencyIsNumber : {TRUE}, concurrency : {2},
                       maxRetries : {1}, retryDelay : {0},
                       skipUnchanged : BOOLEAN, rewriteContent : BOOLEAN,
                       cacheManifest : BOOLEAN]
          /\ env \in [contentDir : {TRUE}, statuses : {{200, 304, 404}}, errors : {{}},
                      bodyErrors : {{}}, mkdirErrors : {{}}, writeErrors : {{}},
                      etag : {"e1", "undef"}, lastModified : {"m1"},
                      netlify : BOOLEAN, hookWriteErrors : {{"EACCES"}}, now : {"t1"}, honest : {FALSE}, gone : {{}},
                      busy : {{}}]
          /\ manifestFile \in {[kind |-> "missing", m |-> <<>>], PrevManifest("e0", "m0")}
       \/ /\ opts \in [enabled : {TRUE}, kirbyDefined : {TRUE}, concurrencyIsNumber : {TRUE}, concurrency : {2},
                       maxRetries : {2}, retryDelay : {0},
                       skipUnchanged : {TRUE}, rewriteContent : {TRUE},
                       cacheManifest : {TRUE}]
          /\ env \in [contentDir : {TRUE}, statuses : {{200, 503}}, errors : {{}},
                      bodyErrors : {{}}, mkdirErrors : {{}}, writeErrors : {{}},
                      etag : {"e1"}, lastModified : {"m1"},
                      netlify : {FALSE}, hookWriteErrors : {{}}, now : {"t1"},
                      honest : {FALSE}, gone : {{}}, busy : {{}}]
          /\ manifestFile \in {[kind |-> "missing", m |-> <<>>]}
    /\ docFiles \in CacheDocs
    /\ assetFiles \in {[f \in AssetPaths |-> "absent"], [f \in AssetPaths |-> "old"]}
    /\ InitHook

SpecCache == InitCache /\ [][Next]_vars

(***************************************************************************)
(* Specification of two builds in a row over the same directories, against *)
(* an origin whose content does not change.                                *)
(***************************************************************************)
MaxBuilds == 2

\* the time of the n-th build
TimeOf(n) == <<"t1", "t2", "t3", "t4">>[n]

\* the build tool runs the hook again ('astro:build:start' of the next build): the
\* locals of the hook are new, the disk is as the previous build left it, time has passed
Rebuild ==
    /\ pc = "done"
    /\ hist.run < MaxBuilds
    /\ pc' = "idle"
    /\ manifest' = EmptyObject
    /\ scanIdx' = 0
    /\ assetMap' = <<>>
    /\ fileEntries' = <<>>
    /\ rewriteIdx' = 0
    /\ index' = 0
    /\ counters' = [success |-> 0, skipped |-> 0, failed |-> 0]
    /\ manifestUpdates' = <<>>
    /\ manifestRemovals' = {}
    /\ workers' = <<>>
    /\ env' = [env EXCEPT !.now = TimeOf(hist.run + 1)]
    /\ hist' = FreshHistory(hist.run + 1,
                            [end |-> hist.end, failed |-> counters.failed, saved |-> hist.saved])
    /\ UNCHANGED <<resolverVars, font, mw, opts, diskVars>>

InitRebuild ==
    /\ url = <<>>
    /\ res = [kind |-> "pending"]
    /\ opts \in [enabled : {TRUE}, kirbyDefined : {TRUE}, concurrencyIsNumber : {TRUE}, concurrency : {2},
                 maxRetries : {2}, retryDelay : {0},
                 skipUnchanged : BOOLEAN, rewriteContent : BOOLEAN,
                 cacheManifest : BOOLEAN]
    /\ env \in [contentDir : {TRUE}, statuses : {{}}, errors : {{}},
                bodyErrors : {{}}, mkdirErrors : {{}}, writeErrors : {{}},
                etag : {"e1", "undef"}, lastModified : {"m1", "undef"},
                netlify : {TRUE}, hookWriteErrors : {{}, {"EACCES"}}, now : {"t1"},
                honest : {TRUE}, gone : {{}, {KeyOf("b")}}, busy : {{}, {KeyOf("a")}}]
    /\ env.gone = {} \/ env.busy = {}
    /\ manifestFile \in {[kind |-> "missing", m |-> <<>>], PrevManifest("e0", "m0"),
                         [kind |-> "array", m |-> <<>>]}
    /\ docFiles = <<File(DocNested), File(DocHero)>>
    /\ assetFiles \in {[f \in AssetPaths |-> "absent"], [f \in AssetPaths |-> "old"]}
    /\ InitHook

NextRebuild == Next \/ Rebuild

SpecRebuild == InitRebuild /\ [][NextRebuild]_vars

(***************************************************************************)
(* Specification of the scan: one document that names two media URLs, every *)
(* pair of short paths under the media prefix, up to the asset map that the *)
(* downloads start from.                                                    *)
(***************************************************************************)
ScanPathLen == 3

ScanUrls == {MediaPrefix \o t : t \in SeqsUpTo({"a", ".", "/"}, ScanPathLen) \ {<<>>}}

InitScan ==
    /\ url = <<>>
    /\ res = [kind |-> "pending"]
    /\ opts = [enabled |-> TRUE, kirbyDefined |-> TRUE, concurrencyIsNumber |-> TRUE, concurrency |-> 2, maxRetries |-> 1,
               retryDelay |-> 0, skipUnchanged |-> TRUE, rewriteContent |-> TRUE,
               cacheManifest |-> TRUE]
    /\ env = [contentDir |-> TRUE, statuses |-> {200}, errors |-> {}, bodyErrors |-> {},
              mkdirErrors |-> {}, writeErrors |-> {}, etag |-> "e1", lastModified |-> "m1",
              netlify |-> FALSE, hookWriteErrors |-> {}, now |-> "t1", honest |-> FALSE,
              gone |-> {}, busy |-> {}]
    /\ docFiles \in {<<File(Arr(<<Str(u), Str(v)>>))>> : u, v \in ScanUrls}
    /\ assetFiles = [f \in AssetPaths |-> "absent"]
    /\ manifestFile = [kind |-> "missing", m |-> <<>>]
    /\ InitHook

NextScan ==
    \/ Start
    \/ LoadManifest
    \/ CheckContent
    \/ ScanFile

SpecScan == InitScan /\ [][NextScan]_vars

(***************************************************************************)
(* Specification of a build with the timers of the attempts: two assets,   *)
(* two workers, an origin that answers 200 or 503 when it answers; a       *)
(* request ends with an abort only when a timer has aborted its controller.*)
(***************************************************************************)
InitTimers ==
    /\ url = <<>>
    /\ res = [kind |-> "pending"]
    /\ opts \in [enabled : {TRUE}, kirbyDefined : {TRUE}, concurrencyIsNumber : {TRUE}, concurrency : {2},
                 maxRetries : {2}, retryDelay : {0},
                 skipUnchanged : {TRUE}, rewriteContent : {TRUE},
                 cacheManifest : {TRUE}]
    /\ env \in [contentDir : {TRUE}, statuses : {{200, 503}}, errors : {{}},
                bodyErrors : {{}}, mkdirErrors : {{}}, writeErrors : {{}},
                etag : {"e1"}, lastModified : {"m1"},
                netlify : {TRUE}, hookWriteErrors : {{}}, now : {"t1"}, honest : {FALSE},
                gone : {{}}, busy : {{}}]
    /\ docFiles \in {<<File(DocNested)>>, <<File(DocHero)>>}
    /\ assetFiles = [f \in AssetPaths |-> "absent"]
    /\ manifestFile = [kind |-> "missing", m |-> <<>>]
    /\ InitHook

NextTimers ==
    \/ Next
    \/ \E w \in DOMAIN workers : TimerFires(w)

SpecTimers == InitTimers /\ [][NextTimers]_vars

(***************************************************************************)
(* Specification of a build with a fair scheduler: three assets, one or    *)
(* two workers, an origin that answers or lets the attempt's timer abort   *)
(* the request.  Once downloadWithConcurrency runs, the event loop runs    *)
(* every continuation that is ready: for each worker the settling of its   *)
(* pending promise (a response, or the abort at the timeout at the latest) *)
(* and the firing of its backoff timer, and the continuation of            *)
(* await Promise.all(workers) once every worker has returned.              *)
(***************************************************************************)
InitLive ==
    /\ url = <<>>
    /\ res = [kind |-> "pending"]
    /\ opts \in [enabled : {TRUE}, kirbyDefined : {TRUE}, concurrencyIsNumber : {TRUE}, concurrency : 1..MaxConcurrency,
                 maxRetries : {2}, retryDelay : {0},
                 skipUnchanged : {TRUE}, rewriteContent : {TRUE},
                 cacheManifest : {TRUE}]
    /\ env \in [contentDir : {TRUE}, statuses : {{200}}, errors : {{"AbortError"}},
                bodyErrors : {{}}, mkdirErrors : {{}}, writeErrors : {{}},
                etag : {"e1"}, lastModified : {"m1"},
                netlify : {TRUE}, hookWriteErrors : {{}}, now : {"t1"}, honest : {FALSE},
                gone : {{}}, busy : {{}}]
    /\ docFiles = <<File(DocDeep), File(DocNested)>>
    /\ assetFiles = [f \in AssetPaths |-> "absent"]
    /\ manifestFile = [kind |-> "missing", m |-> <<>>]
    /\ InitHook

\* the steps of one worker
WorkerStep(w) ==
    /\ w \in DOMAIN workers
    /\ \/ Respond(w)
       \/ ReadBody(w)
       \/ WriteAsset(w)
       \/ WakeUp(w)
       \/ WorkerResume(w)

Fairness ==
    /\ WF_vars(SaveManifest)
    /\ \A w \in 1..MaxConcurrency : WF_vars(WorkerStep(w))

SpecLive == InitLive /\ [][Next]_vars /\ Fairness

\* the builds that differ in the concurrency option: a number from -1 upwards, or
\* a value that is not a number (the option is missing when the hook is called
\* with options of its own, as the sync script of part_005 line 386 does)
InitOptions ==
    /\ url = <<>>
    /\ res = [kind |-> "pending"]
    /\ opts \in [enabled : {TRUE}, kirbyDefined : {TRUE}, concurrencyIsNumber : BOOLEAN,
                 concurrency : (-1)..MaxConcurrency,
                 maxRetries : {2}, retryDelay : {0},
                 skipUnchanged : {TRUE}, rewriteContent : {TRUE},
                 cacheManifest : {TRUE}]
    /\ env \in [contentDir : {TRUE}, statuses : {{200, 503}}, errors : {{}},
                bodyErrors : {{}}, mkdirErrors : {{}}, writeErrors : {{}},
                etag : {"e1"}, lastModified : {"m1"},
                netlify : {TRUE}, hookWriteErrors : {{}}, now : {"t1"}, honest : {FALSE},
                gone : {{}}, busy : {{}}]
    /\ docFiles = <<File(DocHero), File(DocNested)>>
    /\ assetFiles = [f \in AssetPaths |-> "absent"]
    /\ manifestFile = [kind |-> "missing", m |-> <<>>]
    /\ InitHook

SpecOptions == InitOptions /\ [][Next]_vars

(***************************************************************************)
(* Specification of one build with both integrations installed: the font   *)
(* hook, then the image hook, hosted and local, with and without faults.   *)
(***************************************************************************)
InitHooks ==
    /\ url = <<>>
    /\ res = [kind |-> "pending"]
    /\ opts \in [enabled : BOOLEAN, kirbyDefined : BOOLEAN, concurrencyIsNumber : {TRUE}, concurrency : {2},
                 maxRetries : {2}, retryDelay : {0},
                 skipUnchanged : {TRUE}, rewriteContent : {TRUE},
                 cacheManifest : {TRUE}]
    /\ env \in [contentDir : {TRUE}, statuses : {{200, 503}}, errors : {{}},
                bodyErrors : {{}}, mkdirErrors : {{}}, writeErrors : {{}},
                etag : {"e1"}, lastModified : {"m1"},
                netlify : BOOLEAN, hookWriteErrors : {{}, {"EACCES"}}, now : {"t1"},
                honest : {FALSE}, gone : {{}}, busy : {{}}]
    /\ manifestFile \in {[kind |-> "missing", m |-> <<>>], [kind |-> "null", m |-> <<>>]}
    /\ docFiles = <<File(DocHero)>>
    /\ assetFiles = [f \in AssetPaths |-> "absent"]
    /\ InitLocals
    /\ mw = NoRequest
    /\ pc = "config"
    /\ font \in FontStarts({{}}, {<<>>},
                           [maxRetries : {FontMaxRetries}, retryDelay : {DefaultFontRetryDelay},
                            fsErrors : {{}, {"EACCES"}},
                            globalReplies : {{"fonts", "no fonts"}, {"fonts", "HTTP 500"},
                                             {"not json", "null"}},
                            fileReplies : {{"ok"}, {"ok", "HTTP 500"}},
                            fonts : {<<FontList[2]>>}])

NextHooks ==
    \/ FontSetup
    \/ FontFetchGlobal
    \/ FontWakeUp
    \/ FontFetchFile
    \/ FontSave
    \/ Next

SpecHooks == InitHooks /\ [][NextHooks]_vars

(***************************************************************************)
(* Specification of the font hook alone: every attempt limit up to the     *)
(* default, an origin that fails or not, a disk that fails or not.         *)
(***************************************************************************)
OldFontsJson == <<[name |-> "f", woff |-> "old.woff", woff2 |-> "null"]>>

InitFonts ==
    /\ url = <<>>
    /\ res = [kind |-> "pending"]
    /\ opts \in [enabled : {FALSE}, kirbyDefined : BOOLEAN, concurrencyIsNumber : {TRUE}, concurrency : {1},
                 maxRetries : {1}, retryDelay : {0},
                 skipUnchanged : {FALSE}, rewriteContent : {FALSE},
                 cacheManifest : {FALSE}]
    /\ env \in [contentDir : {FALSE}, statuses : {{}}, errors : {{}},
                bodyErrors : {{}}, mkdirErrors : {{}}, writeErrors : {{}},
                etag : {"undef"}, lastModified : {"undef"},
                netlify : BOOLEAN, hookWriteErrors : {{}}, now : {"t1"},
                honest : {FALSE}, gone : {{}}, busy : {{}}]
    /\ manifestFile = [kind |-> "missing", m |-> <<>>]
    /\ docFiles = <<>>
    /\ assetFiles = [f \in AssetPaths |-> "absent"]
    /\ InitLocals
    /\ mw = NoRequest
    /\ pc = "config"
    /\ \/ font \in FontStarts({{}}, {<<>>},
                              [maxRetries : 0..FontMaxRetries \cup {DefaultFontMaxRetries},
                               retryDelay : {DefaultFontRetryDelay},
                               fsErrors : {{}},
                               globalReplies : {{"fonts", "HTTP 500", "ECONNRESET"}},
                               fileReplies : {{"ok", "HTTP 500"}},
                               fonts : {FontList}])
       \/ font \in FontStarts({{}, {"old.woff"}}, {<<>>, OldFontsJson},
                              [maxRetries : {0},
                               retryDelay : {DefaultFontRetryDelay},
                               fsErrors : {{}, {"EACCES"}},
                               globalReplies : {{"fonts", "no fonts"},
                                                {"fonts", "ECONNRESET"},
                                                {"not json", "null", "AbortError"}},
                               fileReplies : {{"ok"}, {"ok", "ECONNRESET"}},
                               fonts : {FontList}])

NextFonts ==
    \/ FontSetup
    \/ FontFetchGlobal
    \/ FontWakeUp
    \/ FontFetchFile
    \/ FontSave

SpecFonts == InitFonts /\ [][NextFonts]_vars

(***************************************************************************)
(* Specification of the middleware: one request, in every build mode and   *)
(* for every outcome of getData('/global.json').                           *)
(***************************************************************************)
\* what getData resolves to: maintenanceToggle true, false, a truthy value that is not
\* true, no such field, null; or it rejects
GlobalOutcomes == {"on", "off", "truthy", "absent", "null", "throws"}

Paths ==
    {<<"/">>, <<"/", "about">>, <<"/", "about", "/">>, <<"/", "de", "/", "about">>,
     <<"/", "maintenance">>, <<"/", "maintenance", "/">>, <<"/", "maintenance", "/", "x">>,
     <<"/", "error">>, <<"/", "error", "/">>, <<"/", "404">>, <<"/", "404", "/">>,
     <<"/", "preview">>, <<"/", "preview", "/">>, <<"/", "preview", "/", "about">>,
     <<"/", "previews">>, <<"/", "_", "astro", "/", "x", ".js">>, <<"/", "_", "image">>,
     <<"/", "api", "/", "x">>, <<"/", "api">>, <<"/", "content", "/", "x", ".json">>,
     <<"/", "sitemap-index", ".xml">>, <<"/", "robots", ".txt">>, <<"/", "favicon", ".ico">>,
     <<"/", "favicons", "/", "x", ".png">>, <<"/", "fonts", "/", "x", ".woff2">>,
     <<"/", "fonts", "/", "fonts", ".json">>, <<"/", "assets", "/", "x", ".css">>,
     <<"/", "assets">>, <<"/", "scripts", "/", "x", ".js">>, <<"/", "styles", "/", "x", ".css">>}

InitMiddleware ==
    /\ url = <<>>
    /\ res = [kind |-> "pending"]
    /\ IdleSite
    /\ pc = "idle"
    /\ font = FontReturned
    /\ InitLocals
    /\ mw \in [pathname : Paths, dev : BOOLEAN, global : GlobalOutcomes, out : {Pending}]

NextMiddleware == OnRequest

SpecMiddleware == InitMiddleware /\ [][NextMiddleware]_vars

(***************************************************************************)
(* Specification of the resolver alone: one string, one call.              *)
(***************************************************************************)
PathAlphabet == {"a", ".", "/", "\\", "?", "%2E", "%2F", "%"}

ResolverInputs ==
    {MediaPrefix \o t : t \in SeqsUpTo(PathAlphabet, MaxPathLen)}
        \cup {<<"a">>, <<"/", "m", "/", "a">>, KirbyUrl \o <<"/", "a">>}

InitResolve ==
    /\ url \in ResolverInputs
    /\ res = [kind |-> "pending"]
    /\ IdleBuild

Resolve ==
    /\ res.kind = "pending"
    /\ res' = resolveMediaPath(url)
    /\ UNCHANGED <<url, buildVars, font, mw>>

NextResolve == Resolve

SpecResolve == InitResolve /\ [][NextResolve]_vars

(***************************************************************************)
(* What the history says about an asset.                                   *)
(***************************************************************************)
Assets == DOMAIN hist.log

LogOf(a) == hist.log[a]

EventsOf(a, kind) ==
    LET Is(ev) == ev.e = kind IN SelectSeq(LogOf(a), Is)

Requests(a) == Len(EventsOf(a, "request"))

Sleeps(a) == EventsOf(a, "sleep")

\* the status downloadAsset returned for asset a, "none" while it has not returned
Outcome(a) ==
    IF Len(LogOf(a)) > 0 /\ LogOf(a)[Len(LogOf(a))].e = "return"
        THEN LogOf(a)[Len(LogOf(a))].s
    ELSE "none"

\* the attempt in which event i of the log of a happened
AttemptAt(a, i) ==
    LET Is(ev) == ev.e = "request" IN Len(SelectSeq(SubSeq(LogOf(a), 1, i), Is))

DocsWritten == \E i \in DOMAIN hist.docWrites : hist.docWrites[i] > 0

(***************************************************************************)
(* C1  Partial-failure atomicity                                           *)
(***************************************************************************)
\* C1: in a run in which an asset ended failed no content document is written: every
\* JSON file holds what it held before the run, whatever succeeded and however the
\* workers interleaved.
C1_PartialFailureAtomicity ==
    (\E a \in Assets : Outcome(a) = "failed")
        => /\ ~DocsWritten
           /\ docFiles = hist.docs0

C1_Witness ==
    /\ pc = "done"
    /\ hist.end = "aborted"
    /\ opts.rewriteContent
    /\ Len(fileEntries) = 2
    /\ hist.launched = 2
    /\ \E a \in Assets : Outcome(a) = "failed"
    /\ \E a \in Assets : Outcome(a) = "downloaded"

(***************************************************************************)
(* C2  Traversal safety                                                    *)
(***************************************************************************)
Segments(p) == FilterNonEmpty(SplitOn(p, "/"))

\* path does not leave dir: it is dir or lies below it, and names no parent directory
Within(p, dir) ==
    /\ p = dir \/ StartsWith(p, dir \o <<"/">>)
    /\ \A i \in 1..Len(Segments(p)) : Segments(p)[i] # <<".", ".">>

\* url is under the media prefix and its decoded, normalized path leaves the root
EscapingUrl(u) ==
    /\ StartsWith(u, MediaPrefix)
    /\ LET rawPath == SplitOn(SubSeq(u, Len(MediaPrefix) + 1, Len(u)), "?")[1]
       IN  /\ rawPath # <<>>
           /\ ~Malformed(rawPath)
           /\ LET p == posixNormalize(decodeURIComponent(rawPath))
              IN  StartsWith(p, <<".", ".", "/">>) \/ p = <<".", ".">>

\* C2: a URL under the media prefix whose decoded, normalized path begins with ../ or
\* is .. resolves to null, and every record returned has its filePath within the media
\* output directory and its cacheKey and localPath under the media directory name.
C2_TraversalSafety ==
    res.kind # "pending"
        => /\ EscapingUrl(url) => res.kind = "null"
           /\ res.kind = "ok"
                => /\ Within(res.filePath, MediaOutputDir)
                   /\ Within(res.cacheKey, MediaDir)
                   /\ Within(res.localPath, <<"/">> \o MediaDir)

C2_Witness ==
    /\ res.kind = "null"
    /\ EscapingUrl(url)
    /\ Includes(url, <<"%2E", ".", "%2F">>)

(***************************************************************************)
(* C3  Deduplication                                                       *)
(***************************************************************************)
\* what resolveMediaPath returns for each string of the content explored
ResolvedOf ==
    [s \in {sA, sAq, sB, sC, sDotA, sUp, sBad, sPlain} |-> resolveMediaPath(s)]

\* the strings of one document that the scan transformer saw before it threw, if it did
RECURSIVE UpToThrow(_)
UpToThrow(strs) ==
    IF Len(strs) = 0 THEN <<>>
    ELSE IF ResolvedOf[strs[1]].kind = "throw" THEN <<>>
    ELSE <<strs[1]>> \o UpToThrow(Tail(strs))

\* every string the scan has handed to the resolver so far, in order
VisitedStrings ==
    Concat([f \in 1..scanIdx |->
               IF hist.docs0[f].ok THEN UpToThrow(Strings(hist.docs0[f].data)) ELSE <<>>])

RECURSIVE ResolveAll(_)
ResolveAll(strs) ==
    IF Len(strs) = 0 THEN <<>>
    ELSE <<ResolvedOf[strs[1]]>> \o ResolveAll(Tail(strs))

\* C3: the strings that resolve to one cache key yield exactly one entry of the asset
\* map, with the remoteUrl of the first of them, and downloadAsset is invoked at most
\* once for it.
C3_Deduplication ==
    LET seen == VisitedStrings
        rs == ResolveAll(seen)
        Hits(n, key) == rs[n].kind = "ok" /\ rs[n].cacheKey = key
    IN  /\ \A i, j \in 1..Len(assetMap) :
              assetMap[i].cacheKey = assetMap[j].cacheKey => i = j
        /\ \A n \in 1..Len(rs) :
              rs[n].kind = "ok"
                  => \E i \in 1..Len(assetMap) : assetMap[i].cacheKey = rs[n].cacheKey
        /\ \A i \in 1..Len(assetMap) :
              \E n \in 1..Len(rs) :
                 /\ Hits(n, assetMap[i].cacheKey)
                 /\ assetMap[i].remoteUrl = seen[n]
                 /\ \A l \in 1..(n - 1) : ~Hits(l, assetMap[i].cacheKey)
        /\ \A a \in DOMAIN hist.calls : hist.calls[a] <= 1

C3_Witness ==
    /\ pc = "done"
    /\ \E i \in 1..Len(assetMap) :
          /\ assetMap[i].remoteUrl = sDotA
          /\ hist.calls[i] = 1
          /\ Outcome(i) = "downloaded"
    /\ \E n \in 1..Len(VisitedStrings) : VisitedStrings[n] = sAq
    /\ \E n, m \in 1..Len(VisitedStrings) :
          n < m /\ VisitedStrings[n] = sB /\ VisitedStrings[m] = sB

(***************************************************************************)
(* C4  Exactly-once scheduling                                             *)
(***************************************************************************)
Launched == pc \in {"download", "decide", "rewrite"} \/ (pc = "done" /\ hist.launched > 0)

CountOutcome(what) == Cardinality({a \in Assets : Outcome(a) = what})

\* C4: under every interleaving each asset is claimed by one worker and handed to
\* downloadAsset once, and when all workers have finished every asset has an outcome
\* and success + skipped + failed is the number of assets, each counter being the
\* number of assets with that outcome.
C4_ExactlyOnce ==
    Launched
        => /\ \A a \in Assets : hist.calls[a] <= 1
           /\ \A v, w \in DOMAIN workers :
                 (v # w /\ workers[v].pc # "exited" /\ workers[w].pc # "exited")
                     => workers[v].a # workers[w].a
           /\ AllExited
                => /\ \A a \in Assets : hist.calls[a] = 1 /\ Outcome(a) # "none"
                   /\ counters.success + counters.skipped + counters.failed = Len(assetMap)
                   /\ counters.success = CountOutcome("downloaded")
                   /\ counters.skipped = CountOutcome("skipped")
                   /\ counters.failed = CountOutcome("failed")

C4_Witness ==
    /\ pc = "download"
    /\ AllExited
    /\ Len(assetMap) = 3
    /\ Len(workers) = 2
    /\ counters.success = 1
    /\ counters.skipped = 1
    /\ counters.failed = 1

(***************************************************************************)
(* C5  Concurrency bound                                                   *)
(***************************************************************************)
Min(x, y) == IF x < y THEN x ELSE y

InFlightCount == Cardinality({w \in DOMAIN workers : InFlight(workers[w])})

\* C5: with a concurrency bound c >= 1 and n assets exactly min(c, n) workers are
\* launched, and at most c downloadAsset calls are in flight in any state.
C5_ConcurrencyBound ==
    (Launched /\ opts.concurrency >= 1)
        => /\ hist.launched = Min(opts.concurrency, Len(assetMap))
           /\ Len(workers) = Min(opts.concurrency, Len(assetMap))
           /\ InFlightCount <= opts.concurrency

C5_Witness ==
    /\ pc = "download"
    /\ opts.concurrency = 2
    /\ Len(assetMap) = 3
    /\ index = 3
    /\ InFlightCount = 2

(***************************************************************************)
(* C6  Terminal client errors                                              *)
(***************************************************************************)
TerminalStatus(n) == n >= 400 /\ n <= 499 /\ n # 429

IsResponse(ev) == ev.e = "response"

\* C6: a response with a 4xx status other than 429 is the last thing the asset sees:
\* downloadAsset returns failed in the same step, with no sleep and no request after
\* it, however many attempts remain.
C6_TerminalClientErrors ==
    \A a \in Assets :
       \A i \in 1..Len(LogOf(a)) :
          (IsResponse(LogOf(a)[i]) /\ LogOf(a)[i].s = "" /\ TerminalStatus(LogOf(a)[i].n))
              => /\ Len(LogOf(a)) = i + 1
                 /\ LogOf(a)[i + 1] = Ev("return", 0, "failed")

C6_Witness ==
    \E a \in Assets :
       /\ Outcome(a) = "failed"
       /\ maxRetriesOf(opts) = 3
       /\ Requests(a) = 1
       /\ Len(Sleeps(a)) = 0
       /\ LogOf(a)[2] = Ev("response", 404, "")

(***************************************************************************)
(* C7  Retriable errors                                                    *)
(***************************************************************************)
\* an attempt ended with 429, a 5xx, a timeout abort, a connection reset or refused
RetriableEnd(ev) ==
    \/ ev.e = "response" /\ ev.s = "" /\ (ev.n = 429 \/ (ev.n >= 500 /\ ev.n <= 599))
    \/ ev.e \in {"response", "body"} /\ ev.s \in {"AbortError", "ECONNRESET", "ECONNREFUSED"}

\* C7: an attempt that ends with such an error while attempts remain is followed by a
\* backoff sleep and then by another request; downloadAsset returns failed right
\* after such an error only when that attempt was the last one allowed.
C7_RetriableErrors ==
    \A a \in Assets :
       \A i \in 1..Len(LogOf(a)) :
          RetriableEnd(LogOf(a)[i])
              => /\ Len(LogOf(a)) >= i + 1
                 /\ IF AttemptAt(a, i) < maxRetriesOf(opts)
                        THEN /\ LogOf(a)[i + 1].e = "sleep"
                             /\ Len(LogOf(a)) >= i + 2
                                   => LogOf(a)[i + 2]
                                        = Ev("request", AttemptAt(a, i) + 1, LogOf(a)[1].s)
                    ELSE /\ AttemptAt(a, i) = maxRetriesOf(opts)
                         /\ LogOf(a)[i + 1] = Ev("return", 0, "failed")

C7_Witness ==
    \E a \in Assets :
       /\ Outcome(a) = "failed"
       /\ maxRetriesOf(opts) = 3
       /\ Requests(a) = 3
       /\ Len(Sleeps(a)) = 2
       /\ LogOf(a)[2] = Ev("response", 0, "ECONNREFUSED")
       /\ LogOf(a)[5] = Ev("response", 429, "")
       /\ LogOf(a)[8] = Ev("response", 0, "AbortError")

(***************************************************************************)
(* C8  Backoff schedule                                                    *)
(***************************************************************************)
\* C8: the i-th backoff sleep of an asset lasts retryDelay x i, and a download that
\* ends as downloaded in its attempt k + 1 has slept exactly k times before; a 2xx
\* whose body was read and written is returned as downloaded.
C8_BackoffSchedule ==
    \A a \in Assets :
       /\ \A i \in 1..Len(Sleeps(a)) : Sleeps(a)[i].n = retryDelayOf(opts) * i
       /\ Outcome(a) = "downloaded"
            => /\ Len(Sleeps(a)) = Requests(a) - 1
               /\ Requests(a) <= maxRetriesOf(opts)
       /\ \A i \in 1..Len(LogOf(a)) :
             LogOf(a)[i] = Ev("write", 0, "ok")
                 => /\ Len(LogOf(a)) = i + 1
                    /\ LogOf(a)[i + 1] = Ev("return", 0, "downloaded")

C8_Witness ==
    \E a \in Assets :
       /\ Outcome(a) = "downloaded"
       /\ retryDelayOf(opts) = 1000
       /\ Sleeps(a) = <<Ev("sleep", 1000, ""), Ev("sleep", 2000, "")>>
       /\ LogOf(a)[2] = Ev("response", 503, "")
       /\ LogOf(a)[5] = Ev("response", 503, "")
       /\ LogOf(a)[8] = Ev("response", 200, "")

(***************************************************************************)
(* C9  Meaning of maxRetries                                               *)
(***************************************************************************)
\* every attempt of a so far ended with a retriable error
AllRetriable(a) ==
    \A i \in 1..Len(LogOf(a)) :
       LogOf(a)[i].e \in {"response", "body"} => RetriableEnd(LogOf(a)[i])

\* C9: with maxRetries = N an asset whose every attempt fails retriably is retried N
\* times after the first request (N + 1 requests), sleeping retryDelay x 1, ...,
\* retryDelay x N, before it is reported failed.
C9_MaxRetriesAreRetries ==
    \A a \in Assets :
       (Outcome(a) = "failed" /\ AllRetriable(a))
           => /\ Requests(a) = maxRetriesOf(opts) + 1
              /\ Len(Sleeps(a)) = maxRetriesOf(opts)
              /\ \A i \in 1..Len(Sleeps(a)) : Sleeps(a)[i].n = retryDelayOf(opts) * i

(***************************************************************************)
(* C10  Not-modified handling                                              *)
(***************************************************************************)
SameValidators(meta, cached) ==
    /\ meta.etag = cached.etag
    /\ meta.lastModified = cached.lastModified
    /\ meta.size = cached.size
    /\ meta.downloadedAt = cached.downloadedAt

\* C10: a 304 makes downloadAsset return skipped at once, with the cached entry's etag,
\* lastModified and size (and downloadedAt) and with checkedAt set to now; the asset's
\* local file is not written and still holds what it held before the run.
C10_NotModified ==
    /\ \A a \in Assets :
          \A i \in 1..Len(LogOf(a)) :
             LogOf(a)[i] = Ev("response", 304, "")
                 => /\ Len(LogOf(a)) = i + 1
                    /\ LogOf(a)[i + 1] = Ev("return", 0, "skipped")
                    /\ Len(EventsOf(a, "write")) = 0
                    /\ assetFiles[assetMap[a].filePath] = hist.files0[assetMap[a].filePath]
    /\ \A w \in DOMAIN workers :
          workers[w].result.status = "skipped"
              => /\ SameValidators(workers[w].result.metadata, assetMap[workers[w].a].metadata)
                 /\ workers[w].result.metadata.checkedAt = Now
                 /\ workers[w].result.metadata.has
    /\ \A a \in Assets :
          (Outcome(a) = "skipped" /\ HasKey(manifestUpdates, assetMap[a].cacheKey))
              => /\ SameValidators(Lookup(manifestUpdates, assetMap[a].cacheKey),
                                   assetMap[a].metadata)
                 /\ Lookup(manifestUpdates, assetMap[a].cacheKey).checkedAt = Now

C10_Witness ==
    \E a \in Assets :
       /\ Outcome(a) = "skipped"
       /\ Requests(a) = 2
       /\ assetMap[a].metadata.etag = "e0"
       /\ assetMap[a].metadata.checkedAt = "t0"
       /\ HasKey(manifestUpdates, assetMap[a].cacheKey)
       /\ Lookup(manifestUpdates, assetMap[a].cacheKey).etag = "e0"
       /\ Lookup(manifestUpdates, assetMap[a].cacheKey).size = 1
       /\ assetFiles[assetMap[a].filePath] = "old"

(***************************************************************************)
(* C11  Manifest validity                                                  *)
(***************************************************************************)
\* the manifest write-back of this run is over and the hook went on
WrittenBack == opts.cacheManifest /\ hist.launched > 0 /\ hist.end \in {"aborted", "completed"}

\* the entries the manifest file holds
FileEntries == IF manifestFile.kind = "map" THEN manifestFile.m ELSE <<>>

\* what JSON keeps of a response header: undefined is dropped
Stored(header) == IF header = "undef" THEN "absent" ELSE header

\* C11: after the manifest write-back of a run with the manifest enabled, aborted or
\* not, the manifest file holds no entry for an asset that ended failed and holds, for
\* every asset that ended downloaded, an entry with the etag and last-modified of the
\* 2xx response; the upsert keys and the removal keys are disjoint in every state.
C11_ManifestValidity ==
    /\ Keys(manifestUpdates) \cap manifestRemovals = {}
    /\ WrittenBack
         => \A a \in Assets :
               /\ Outcome(a) = "failed" => ~HasKey(FileEntries, assetMap[a].cacheKey)
               /\ Outcome(a) = "downloaded"
                    => /\ HasKey(FileEntries, assetMap[a].cacheKey)
                       /\ Lookup(FileEntries, assetMap[a].cacheKey).etag = Stored(env.etag)
                       /\ Lookup(FileEntries, assetMap[a].cacheKey).lastModified
                             = Stored(env.lastModified)

(***************************************************************************)
(* C12  Manifest placement                                                 *)
(***************************************************************************)
\* C12: the path from which the manifest is read and to which it is written lies
\* outside the publishable output directory (publicDir and its media directory).
C12_ManifestOutsidePublic ==
    (hist.manifestReads > 0 \/ hist.manifestWrites > 0)
        => /\ ~Within(ManifestPath, PublicDir)
           /\ ~Within(ManifestPath, MediaOutputDir)

(***************************************************************************)
(* C13  Manifest load degradation                                          *)
(***************************************************************************)
\* C13: when the manifest file is missing, unparsable or holds a value that is not a
\* key-to-entry mapping, the run works with an empty manifest (no asset gets cached
\* metadata) and no error is raised because of the manifest: a run that reached the
\* downloads ends completed or aborted unless a file could not be written.
C13_ManifestLoadDegrades ==
    (opts.cacheManifest /\ hist.manifest0.kind # "map")
        => /\ \A i \in 1..Len(assetMap) : assetMap[i].metadata = NullMeta
           /\ hist.error # "TypeError"
           /\ (pc = "done" /\ hist.launched > 0 /\ hist.error = "")
                 => hist.end \in {"aborted", "completed"}

(***************************************************************************)
(* C14  Manifest write-back only on change                                 *)
(***************************************************************************)
\* the manifest as it was loaded by this run
Loaded == IF opts.cacheManifest THEN parseManifest(hist.manifest0) ELSE EmptyObject

\* C14: once the upserts are merged and the removal keys deleted, the manifest file has
\* been written (once, with the merged map) if and only if the merged map differs
\* from the loaded one; with equal maps the file is as it was, and it is never written
\* before the merge.
C14_WriteBackOnlyOnChange ==
    /\ ~hist.saved => hist.manifestWrites = 0 /\ manifestFile = hist.manifest0
    /\ (hist.saved /\ opts.cacheManifest)
         => IF manifest.m # Loaded.m
                THEN hist.manifestWrites = 1 /\ manifestFile = stringifyManifest(manifest)
            ELSE hist.manifestWrites = 0 /\ manifestFile = hist.manifest0

C14_Witness ==
    /\ hist.saved
    /\ opts.cacheManifest
    /\ Len(assetMap) = 2
    /\ counters.failed = 2
    /\ Cardinality(manifestRemovals) = 2
    /\ manifest.m = Loaded.m
    /\ hist.manifestWrites = 0

(***************************************************************************)
(* C15  Idempotence across builds                                          *)
(***************************************************************************)
\* a build after the first one has ended
LaterBuildDone == hist.run >= 2 /\ pc = "done"

\* C15 as stated: a second build over the same content directory, with unchanged
\* remote content, reports every asset skipped and none downloaded, leaves the asset
\* files identical and leaves the manifest unchanged.
C15_Idempotent ==
    LaterBuildDone
        => /\ counters.success = 0
           /\ counters.skipped = Len(assetMap)
           /\ assetFiles = hist.files0
           /\ manifestFile = hist.manifest0

\* the asset's file was on disk when the build began and its manifest entry holds the
\* validator the origin sends now (the etag if the entry has one, else last-modified)
Validated(asset) ==
    /\ hist.files0[asset.filePath] # "absent"
    /\ asset.metadata.has
    /\ IF Truthy(asset.metadata.etag) THEN asset.metadata.etag = env.etag
       ELSE Truthy(asset.metadata.lastModified)
            /\ asset.metadata.lastModified = env.lastModified

\* the two manifest files hold the same keys with the same etag, lastModified, size,
\* downloadedAt and localPath: they differ at most in checkedAt and in the remoteUrl
\* recorded for a key
SameButCheckedAt(f, g) ==
    /\ f.kind = g.kind
    /\ Len(f.m) = Len(g.m)
    /\ \A i \in 1..Len(f.m) :
          /\ f.m[i].key = g.m[i].key
          /\ [f.m[i].e EXCEPT !.checkedAt = "", !.remoteUrl = <<>>]
                = [g.m[i].e EXCEPT !.checkedAt = "", !.remoteUrl = <<>>]

\* C15 amended: when skipUnchanged is on and every asset the later build finds has its
\* local file and a manifest entry with the origin's current validator, that build
\* reports every asset skipped, none downloaded or failed, leaves the asset files
\* identical and changes nothing in the manifest but the checkedAt of an entry (and its
\* remoteUrl, when the first reference to the asset is another string than before).
C15_IdempotentUpToCheckedAt ==
    (LaterBuildDone /\ opts.skipUnchanged
       /\ \A i \in 1..Len(assetMap) : Validated(assetMap[i]))
        => /\ counters.success = 0
           /\ counters.failed = 0
           /\ counters.skipped = Len(assetMap)
           /\ assetFiles = hist.files0
           /\ SameButCheckedAt(manifestFile, hist.manifest0)

C15_Witness ==
    /\ LaterBuildDone
    /\ opts.skipUnchanged
    /\ Len(assetMap) = 2
    /\ \A i \in 1..Len(assetMap) : Validated(assetMap[i])
    /\ counters.skipped = 2
    /\ hist.manifestWrites = 1
    /\ manifestFile # hist.manifest0
    /\ hist.prev.end = "completed"

(***************************************************************************)
(* C16  Document write discipline                                          *)
(***************************************************************************)
\* some string of the document resolves, so the rewrite transformer substitutes it
HasResolving(data) ==
    \E i \in 1..Len(Strings(data)) : resolveMediaPath(Strings(data)[i]).kind = "ok"

\* the rewrite loop has handled entry k of fileEntries
Handled(k) == k <= rewriteIdx

Rewritten ==
    /\ pc = "done"
    /\ hist.end = "completed"
    /\ opts.rewriteContent
    /\ counters.failed = 0

\* C17: after the rewriting phase of a run with failed = 0 and rewriteContent on, no
\* document collected by the scan, whatever its nesting and also when its root is a
\* string, still holds in its file a string that resolveMediaPath resolves.
C17_RewriteComplete ==
    Rewritten =>
        \A k \in 1..Len(fileEntries) : ~HasResolving(docFiles[fileEntries[k].file].data)

\* the same for the documents whose root is a container
C17_ContainersRewritten ==
    Rewritten =>
        \A k \in 1..Len(fileEntries) :
            hist.docs0[fileEntries[k].file].data.t # "str"
                => ~HasResolving(docFiles[fileEntries[k].file].data)

(***************************************************************************)
(* C18  Malformed content isolation                                        *)
(***************************************************************************)
\* the content files collected for the rewrite, by their position in the content directory
Collected == {fileEntries[k].file : k \in 1..Len(fileEntries)}

\* the cache keys the strings of a document resolve to
KeysOf(data) ==
    {resolveMediaPath(Strings(data)[i]).cacheKey :
        i \in {j \in 1..Len(Strings(data)) : resolveMediaPath(Strings(data)[j]).kind = "ok"}}

\* the traversal of the document throws on one of its strings
ScanThrows(data) ==
    \E i \in 1..Len(Strings(data)) : resolveMediaPath(Strings(data)[i]).kind = "throw"

Policy == IF env.netlify THEN "warned" ELSE "rethrown"

\* C19: an exception that leaves the body of the font-downloader hook or of
\* netlifyHybridImagesSetup is caught at the boundary of the hook; in a Netlify build the
\* hook ends with a warning and returns normally (the build goes on), in a local build
\* the exception is thrown again to the caller.
C19_ExceptionPolicy ==
    /\ font.error # "" => font.pc = "done" /\ font.end = Policy
    /\ font.end \in {"warned", "rethrown"} => font.error # "" /\ font.end = Policy
    /\ font.end = "warned" => pc # "config"
    /\ font.end = "rethrown" => pc = "done" /\ hist.end = ""
    /\ hist.error # "" => pc = "done" /\ hist.end = Policy
    /\ hist.end \in {"warned", "rethrown"} => hist.error # "" /\ hist.end = Policy

C19_Witness ==
    /\ env.netlify
    /\ font.error = "HTTP 500"
    /\ Len(font.dls) = 1
    /\ font.dls[1].result = "HTTP 500"
    /\ font.end = "warned"
    /\ pc = "done"
    /\ hist.error = "TypeError"
    /\ hist.end = "warned"

\* a local build: the exception of the image hook reaches the caller
C19_WitnessLocal ==
    /\ ~env.netlify
    /\ font.end = "completed"
    /\ hist.error = "EACCES"
    /\ hist.end = "rethrown"

(***************************************************************************)
(* C20  Disabled or unconfigured no-op                                     *)
(***************************************************************************)
\* C20: when options.enabled is false or KIRBY_URL is not defined, netlifyHybridImagesSetup
\* returns at once: it reads neither the manifest nor a content file, issues no request,
\* creates no directory and writes no file, so the disk stays as it was.
C20_DisabledNoOp ==
    (~opts.enabled \/ ~opts.kirbyDefined) =>
        /\ pc \in {"config", "idle", "done"}
        /\ hist.manifestReads = 0
        /\ hist.docReads = 0
        /\ hist.mkdirs = 0
        /\ hist.manifestWrites = 0
        /\ hist.launched = 0
        /\ hist.calls = <<>>
        /\ hist.log = <<>>
        /\ workers = <<>>
        /\ \A f \in 1..Len(docFiles) : hist.docWrites[f] = 0
        /\ docFiles = hist.docs0
        /\ assetFiles = hist.files0
        /\ manifestFile = hist.manifest0
        /\ hist.end \in {"", "disabled", "nourl"}
        /\ hist.error = ""

C20_Witness ==
    /\ ~opts.enabled
    /\ opts.kirbyDefined
    /\ font.end = "completed"
    /\ pc = "done"
    /\ hist.end = "disabled"

\* the hook is enabled and KIRBY_URL is not defined
C20_WitnessNoUrl ==
    /\ opts.enabled
    /\ ~opts.kirbyDefined
    /\ pc = "done"
    /\ hist.end = "nourl"

(***************************************************************************)
(* C21  Font retry schedule                                                *)
(***************************************************************************)
\* the attempts of a download, in order
FetchesOf(log) == SelectSeq(log, LAMBDA e : e.ev = "fetch")

\* the log of one downloadFont: attempt, sleep, attempt, ..., with at most maxRetries + 1
\* attempts, each but the last one failed, and retryDelay * 2^k slept before retry k + 1
Scheduled(log, maxRetries, retryDelay) ==
    /\ Len(FetchesOf(log)) <= maxRetries + 1
    /\ \A n \in 1..Len(log) :
          IF n % 2 = 1
              THEN /\ log[n].ev = "fetch"
                   /\ n < Len(log) => log[n].r # "ok"
          ELSE /\ log[n].ev = "sleep"
               /\ log[n].ms = retryDelay * (2 ^ ((n \div 2) - 1))

\* C21: downloadFont makes at most maxRetries + 1 attempts, sleeps retryDelay * 2^k before
\* the (k+1)-th retry, returns the body of the first attempt that succeeds and throws the
\* last error only when maxRetries + 1 attempts have failed.
C21_FontRetrySchedule ==
    /\ Scheduled(font.cur, font.cfg.maxRetries, font.cfg.retryDelay)
    /\ font.pc = "sleep" => Len(font.cur) = 2 * (font.attempt + 1)
    /\ \A d \in 1..Len(font.dls) :
          LET log == font.dls[d].log
          IN  /\ Scheduled(log, font.cfg.maxRetries, font.cfg.retryDelay)
              /\ Len(log) % 2 = 1
              /\ IF font.dls[d].result = "body"
                     THEN log[Len(log)].r = "ok"
                 ELSE /\ Len(FetchesOf(log)) = font.cfg.maxRetries + 1
                      /\ log[Len(log)].r = font.dls[d].result
                      /\ font.dls[d].result \in FontFetchErrors

\* the defaults: four failed attempts with 1 s, 2 s and 4 s between them, and a later
\* download that succeeds at its second attempt
C21_Witness ==
    /\ font.cfg.maxRetries = 3
    /\ font.cfg.retryDelay = 1000
    /\ \E d \in 1..Len(font.dls) :
          /\ font.dls[d].result = "HTTP 500"
          /\ Len(font.dls[d].log) = 7
          /\ font.dls[d].log[2].ms = 1000
          /\ font.dls[d].log[4].ms = 2000
          /\ font.dls[d].log[6].ms = 4000
    /\ \E d \in 1..Len(font.dls) :
          /\ font.dls[d].result = "body"
          /\ Len(font.dls[d].log) = 3
          /\ font.dls[d].log[2].ms = 1000

(***************************************************************************)
(* C22  Font metadata inclusion                                            *)
(***************************************************************************)
\* the downloads of the run that were for this URL
DownloadsOf(u) == {d \in 1..Len(font.dls) : font.dls[d].what = u}

\* the entries of fonts.json for the font of this name
ListedAs(name) == {n \in 1..Len(font.json) : font.json[n].name = name}

\* the path fonts.json must hold for a format: the file when it was downloaded and
\* written in this run, else null
PathFor(u) == IF u # "" /\ u \in font.written THEN u ELSE "null"

\* C22: when the hook has written fonts.json after the font loop, a font is listed, once,
\* if and only if one of its two files was downloaded and written in this run; a format
\* that failed (or has no URL) is null in the entry; and every file of every font was
\* attempted, whatever happened to the fonts before it.
C22_FontMetadataInclusion ==
    font.end = "completed" =>
        /\ \A i \in 1..Len(font.cfg.fonts) :
              LET f == font.cfg.fonts[i]
              IN  /\ (ListedAs(f.name) # {})
                        <=> (PathFor(f.url1) # "null" \/ PathFor(f.url2) # "null")
                  /\ Cardinality(ListedAs(f.name)) <= 1
                  /\ \A n \in ListedAs(f.name) :
                        /\ font.json[n].woff = PathFor(f.url1)
                        /\ font.json[n].woff2 = PathFor(f.url2)
                  /\ f.url1 # "" => Cardinality(DownloadsOf(f.url1)) = 1
                  /\ f.url2 # "" => Cardinality(DownloadsOf(f.url2)) = 1
        /\ \A d \in 1..Len(font.dls) :
              font.dls[d].result # "body" => font.dls[d].what \notin font.written
        /\ \A n \in 1..Len(font.json) :
              \E i \in 1..Len(font.cfg.fonts) : font.cfg.fonts[i].name = font.json[n].name

\* both files of the first font failed, the second font was still downloaded and listed
C22_Witness ==
    /\ font.end = "completed"
    /\ font.cfg.fonts = FontList
    /\ font.json = <<[name |-> "g", woff |-> "g.woff", woff2 |-> "null"]>>
    /\ font.written = {"g.woff"}
    /\ \E d \in DownloadsOf("f.woff") : font.dls[d].result # "body"
    /\ \E d \in DownloadsOf("f.woff2") : font.dls[d].result # "body"

\* one format of a font failed, the other one was written: the font is listed
C22_WitnessPartial ==
    /\ font.end = "completed"
    /\ \E n \in 1..Len(font.json) :
          /\ font.json[n].name = "f"
          /\ font.json[n].woff = "null"
          /\ font.json[n].woff2 = "f.woff2"

(***************************************************************************)
(* C23  Maintenance gate                                                   *)
(***************************************************************************)
Answered == mw.out # Pending /\ mw # NoRequest

C23_WitnessFailure ==
    /\ Answered
    /\ mw.pathname = <<"/", "about">>
    /\ ~mw.dev
    /\ mw.global = "throws"
    /\ mw.out = [to |-> "next", fetched |-> TRUE, warned |-> TRUE]

(***************************************************************************)
(* C24  Maintenance exclusions                                             *)
(***************************************************************************)
\* the paths the documentation lists as excluded: six paths, and everything under six
\* directories
DocumentedExclusion(pathname) ==
    \/ pathname \in {<<"/", "maintenance">>, <<"/", "error">>, <<"/", "404">>,
                     <<"/", "preview">>, <<"/", "sitemap-index", ".xml">>,
                     <<"/", "robots", ".txt">>}
    \/ \E dir \in {"preview", "favicons", "fonts", "assets", "scripts", "styles"} :
          StartsWith(pathname, <<"/", dir, "/">>)

\* C24: whatever the maintenance toggle, a request to one of the documented excluded
\* paths, or to a path under one of the documented excluded directories, is never
\* rewritten to the maintenance page.
C24_MaintenanceExclusions ==
    (Answered /\ DocumentedExclusion(mw.pathname)) => mw.out.to = "next"

\* the documented exclusions that the middleware does exclude
C24_ExcludedInCode ==
    (Answered /\ DocumentedExclusion(mw.pathname) /\ skipsMiddleware(mw.pathname))
        => mw.out.to = "next" /\ ~mw.out.fetched

(***************************************************************************)
(* C25  Premature close is retriable                                       *)
(***************************************************************************)
\* an attempt ended with a premature close, raised by fetch or while reading the body
PrematureClose(ev) == ev.e \in {"response", "body"} /\ ev.s = "Premature close"

\* C25: an attempt that ends with a premature close while attempts remain is followed
\* by a backoff sleep, as one that ends with a connection reset or refused is, and
\* not by the return of a failed outcome.
C25_PrematureCloseRetried ==
    \A a \in Assets :
       \A i \in 1..Len(LogOf(a)) :
          (PrematureClose(LogOf(a)[i]) /\ AttemptAt(a, i) < maxRetriesOf(opts))
              => /\ Len(LogOf(a)) >= i + 1
                 /\ LogOf(a)[i + 1].e = "sleep"

\* what the catch block does with it: the asset fails in that same attempt
C25_PrematureCloseFails ==
    \A a \in Assets :
       \A i \in 1..Len(LogOf(a)) :
          PrematureClose(LogOf(a)[i])
              => /\ Len(LogOf(a)) >= i + 1
                 /\ LogOf(a)[i + 1] = Ev("return", 0, "failed")

(***************************************************************************)
(* C26  Conditional-request precondition                                   *)
(***************************************************************************)
\* the entries of the manifest the build works with: those of the manifest file as the
\* build found it, none when the manifest is switched off or the file holds no mapping
LoadedEntries ==
    IF opts.cacheManifest /\ hist.manifest0.kind = "map" THEN hist.manifest0.m ELSE <<>>

\* the validators the manifest holds for an asset
CachedValidators(a) ==
    LET e == Lookup(LoadedEntries, assetMap[a].cacheKey)
    IN  {h \in {"etag", "lm"} :
            /\ HasKey(LoadedEntries, assetMap[a].cacheKey)
            /\ h = "etag" => e.etag \notin {"absent", "undef", ""}
            /\ h = "lm" => e.lastModified \notin {"absent", "undef", ""}}

\* the conditional headers a request carries
HeadersOf(ev) ==
    IF ev.s = "both" THEN {"etag", "lm"} ELSE IF ev.s = "none" THEN {} ELSE {ev.s}

\* C26: every request of an asset carries If-None-Match and/or If-Modified-Since, one
\* for each validator the manifest holds for the asset, if and only if skipUnchanged
\* is on, the manifest holds an entry for the asset with a validator and the asset's
\* file was on disk when the build started; otherwise it carries neither, and every
\* retry carries what the first request carried.
C26_ConditionalPrecondition ==
    \A a \in Assets :
       \A i \in 1..Len(LogOf(a)) :
          LogOf(a)[i].e = "request"
              => /\ HeadersOf(LogOf(a)[i])
                      = IF /\ opts.skipUnchanged
                           /\ hist.files0[assetMap[a].filePath] # "absent"
                            THEN CachedValidators(a)
                        ELSE {}
                 /\ LogOf(a)[i].s = LogOf(a)[1].s

\* a retry that repeats the conditional headers of the first request
C26_Witness ==
    \E a \in Assets :
       /\ Requests(a) = 2
       /\ CachedValidators(a) = {"etag", "lm"}
       /\ LogOf(a)[1] = Ev("request", 1, "both")
       /\ LogOf(a)[Len(LogOf(a))] = Ev("request", 2, "both")

\* an entry with validators, skipUnchanged on, but no file on disk: no header
C26_WitnessNoFile ==
    \E a \in Assets :
       /\ opts.skipUnchanged
       /\ CachedValidators(a) # {}
       /\ hist.files0[assetMap[a].filePath] = "absent"
       /\ Len(LogOf(a)) >= 1
       /\ LogOf(a)[1] = Ev("request", 1, "none")

\* a single validator in the manifest: only its header is sent
C26_WitnessOneValidator ==
    \E a \in Assets :
       /\ CachedValidators(a) = {"lm"}
       /\ Len(LogOf(a)) >= 1
       /\ LogOf(a)[1] = Ev("request", 1, "lm")

(***************************************************************************)
(* C27  No stall between workers                                           *)
(***************************************************************************)
\* a worker is suspended on a request or on a backoff sleep
Suspended(w) == workers[w].pc \in {"fetch", "sleep"}

\* while assets are unclaimed no worker has left its loop, and a worker that has not
\* left it can take its next step whatever the other workers are doing
KeepsGoing(w) ==
    /\ index < Len(assetMap) => workers[w].pc # "exited"
    /\ workers[w].pc # "exited" => ENABLED WorkerStep(w)

NoStall ==
    pc = "download"
        => \A v \in DOMAIN workers :
              Suspended(v) => \A w \in DOMAIN workers \ {v} : KeepsGoing(w)

\* downloadWithConcurrency has returned and every asset has an outcome
AllSettled ==
    /\ pc \in {"decide", "rewrite", "done"}
    /\ AllExited
    /\ \A a \in 1..Len(assetMap) : Outcome(a) # "none"

\* C27: while one worker is suspended on a request or a backoff sleep, every other
\* worker is still in its loop as long as assets are unclaimed and can take its next
\* step; and, every ready continuation being run and every attempt ending at its
\* timeout at the latest, once the scheduler runs every asset eventually has an
\* outcome and the scheduler returns.
C27_NoStall == []NoStall /\ (pc = "download" ~> AllSettled)

\* one worker still sleeps after the first attempt of the first asset while the other
\* worker has claimed and completed the two other assets
C27_Witness ==
    /\ pc = "download"
    /\ Len(workers) = 2
    /\ Len(assetMap) = 3
    /\ workers[1].pc = "sleep"
    /\ workers[1].a = 1
    /\ workers[1].attempt = 1
    /\ workers[2].pc = "resume"
    /\ workers[2].a = 3
    /\ Outcome(2) = "downloaded"
    /\ Outcome(3) = "downloaded"

(***************************************************************************)
(* C28  Per-attempt cancellation                                           *)
(***************************************************************************)
\* event i of the log of a is a request or a body read that ended with an abort
AbortedAt(a, i) == LogOf(a)[i].e \in {"response", "body"} /\ LogOf(a)[i].s = "AbortError"

\* the timer armed for attempt k of asset a has fired, while the attempt stood at one
\* of the given places
FiredDuring(a, k, places) ==
    \E t \in hist.fired : t.a = a /\ t.attempt = k /\ t.at \in places

\* C28: a request or body read of attempt k of an asset ends with an abort only when
\* the timer armed for that attempt of that asset has fired while the request or the
\* body read was pending; a timer fires only while its attempt lasts, and one that
\* fires during the write or the backoff sleep aborts nothing: neither its own attempt
\* nor any later attempt or other asset ends with an abort because of it.
C28_PerAttemptCancellation ==
    /\ \A a \in Assets :
          \A i \in 1..Len(LogOf(a)) :
             AbortedAt(a, i) => FiredDuring(a, AttemptAt(a, i), {"fetch", "body"})
    /\ \A t \in hist.fired :
          /\ t.at \in {"fetch", "body", "write", "sleep"}
          /\ t.attempt <= AttemptAt(t.a, Len(LogOf(t.a)))

\* the timer of the first attempt fires during the backoff sleep, and the second
\* attempt of the same asset still downloads it
C28_Witness ==
    \E a \in Assets :
       /\ FiredDuring(a, 1, {"sleep"})
       /\ ~FiredDuring(a, 2, {"fetch", "body", "write", "sleep"})
       /\ Requests(a) = 2
       /\ Outcome(a) = "downloaded"

\* a timer that fires while its own request is pending makes that attempt retry
C28_WitnessTimeout ==
    \E a \in Assets :
       /\ FiredDuring(a, 1, {"fetch"})
       /\ Len(LogOf(a)) >= 3
       /\ LogOf(a)[2] = Ev("response", 0, "AbortError")
       /\ LogOf(a)[3].e = "sleep"

(***************************************************************************)
(* C29  Public path and query                                              *)
(***************************************************************************)
HasQuery(u) == \E i \in 1..Len(u) : u[i] = "?"

\* everything after the first "?" of u
QueryOf(u) ==
    LET i == CHOOSE k \in 1..Len(u) : u[k] = "?" /\ \A j \in 1..(k - 1) : u[j] # "?"
    IN  SubSeq(u, i + 1, Len(u))

\* "/" + mediaDir + "/" + the normalized segments joined by "/"
PublicPathOf(r) == <<"/">> \o r.cacheKey

\* C29: for every URL that resolves, the public path returned is "/" + mediaDir + "/" +
\* the normalized segments joined by "/", followed by "?" and everything after the
\* first "?" of the URL when the URL has a query, and by nothing when it has none.
C29_PublicPathAndQuery ==
    res.kind = "ok"
        => /\ res.localPath = PublicPathOf(res)
           /\ res.localPathWithQuery
                 = IF HasQuery(url) THEN PublicPathOf(res) \o <<"?">> \o QueryOf(url)
                   ELSE PublicPathOf(res)

\* what the resolver returns: the query is cut at its second "?", and an empty one is
\* dropped with its "?"
C29_QueryUpToSecondMark ==
    res.kind = "ok"
        => /\ res.localPath = PublicPathOf(res)
           /\ res.localPathWithQuery
                 = IF HasQuery(url) /\ SplitOn(QueryOf(url), "?")[1] # <<>>
                       THEN PublicPathOf(res) \o <<"?">> \o SplitOn(QueryOf(url), "?")[1]
                   ELSE PublicPathOf(res)

(***************************************************************************)
(* C30  Distinct destinations                                              *)
(***************************************************************************)
\* dir is the path itself or one of the directories above it
DirectoryOf(dir, path) == StartsWith(path, dir \o <<"/">>)

\* C30: any two distinct entries of the asset map have distinct file paths, no
\* asset's file path is the media output directory, and none is a directory in which
\* the file of another asset lies.
C30_DistinctDestinations ==
    \A i \in 1..Len(assetMap) :
       /\ assetMap[i].filePath # MediaOutputDir
       /\ \A j \in 1..Len(assetMap) :
             i # j => /\ assetMap[i].filePath # assetMap[j].filePath
                      /\ ~DirectoryOf(assetMap[i].filePath, assetMap[j].filePath)

\* the part that holds: distinct cache keys have distinct file paths
C30_DistinctFiles ==
    \A i, j \in 1..Len(assetMap) :
       i # j => /\ assetMap[i].cacheKey # assetMap[j].cacheKey
                /\ assetMap[i].filePath # assetMap[j].filePath

\* two assets of which one is to be written where the other needs a directory
C30_FileAndDirectory ==
    ~ \E i, j \in 1..Len(assetMap) : DirectoryOf(assetMap[i].filePath, assetMap[j].filePath)

\* an asset whose file path is the media output directory
C30_OutputDirectoryItself ==
    \A i \in 1..Len(assetMap) : assetMap[i].filePath # MediaOutputDir

(***************************************************************************)
(* C31  Manifest mutation ordering                                         *)
(***************************************************************************)
\* every asset of the run has its outcome and every worker has returned
WorkersDone ==
    /\ \A w \in DOMAIN workers : ~InFlight(workers[w]) /\ workers[w].pc # "resume"
    /\ \A a \in Assets : Outcome(a) # "none"
    /\ counters.success + counters.skipped + counters.failed = Len(assetMap)

\* a step that changes the manifest in memory after it was loaded, or the manifest file
MutatesManifest ==
    \/ manifestFile' # manifestFile
    \/ pc # "load" /\ manifest' # manifest

\* C31: the manifest in memory (after its load) and the manifest file are changed only
\* by a step taken when all workers have returned and every asset has its outcome,
\* at most once in a run and before any content document is written; until then the
\* manifest is the loaded one, and the metadata every worker works with is the entry
\* the loaded manifest holds for its asset.
C31_ManifestMutationOrdering ==
    /\ [][MutatesManifest
            => /\ pc = "download"
               /\ WorkersDone
               /\ ~hist.saved
               /\ ~DocsWritten
               /\ hist.manifestWrites = 0]_vars
    /\ [](hist.manifestWrites <= 1)
    /\ []((pc = "download" /\ ~WorkersDone) => manifest = Loaded)
    /\ [](\A i \in 1..Len(assetMap) :
             assetMap[i].metadata = Lookup(Loaded.m, assetMap[i].cacheKey))

\* the manifest was merged and written once, two workers had run, then a document was
\* rewritten
C31_Witness ==
    /\ hist.manifestWrites = 1
    /\ manifest # Loaded
    /\ Len(workers) = 2
    /\ Len(assetMap) = 2
    /\ DocsWritten

(***************************************************************************)
(* C32  Orchestrator phase order                                           *)
(***************************************************************************)
\* the content directory was found and holds at least one JSON file
ContentConfirmed ==
    /\ pc \notin {"idle", "load", "content"}
    /\ env.contentDir
    /\ Len(hist.docs0) > 0

\* C32: the manifest file has been read only in a run that had confirmed before that
\* the content directory exists and holds at least one JSON file, and the documents are
\* scanned before the manifest is loaded; downloading comes after both, rewriting or
\* the abort after the downloads.
C32_PhaseOrder ==
    /\ hist.manifestReads > 0 => ContentConfirmed
    /\ (hist.manifestReads > 0 /\ pc = "scan") => scanIdx = Len(docFiles)

\* the order of the code: manifest load, content check, scan, downloads, write-back,
\* then rewrite or abort
C32_LoadBeforeScan ==
    /\ (opts.cacheManifest /\ pc \notin {"idle", "load"} /\ hist.end \notin {"disabled", "nourl"})
          => hist.manifestReads = 1
    /\ pc \in {"idle", "load", "content"} => hist.docReads = 0 /\ hist.launched = 0
    /\ pc = "scan" => hist.launched = 0
    /\ hist.launched > 0 => hist.docReads = Len(docFiles)
    /\ (DocsWritten \/ hist.end = "aborted") => hist.saved

(***************************************************************************)
(* C33  No dead local paths                                                *)
(***************************************************************************)
\* the positions of the strings of document f that the rewrite replaced
Substituted(f) ==
    IF hist.docs0[f].ok /\ docFiles[f].ok
        THEN {k \in 1..Len(Strings(hist.docs0[f].data)) :
                 Strings(docFiles[f].data)[k] # Strings(hist.docs0[f].data)[k]}
    ELSE {}

\* the asset of this run behind the string that stood at position k of document f
\* was downloaded or skipped and its local file exists
LiveTarget(f, k) ==
    LET match == resolveMediaPath(Strings(hist.docs0[f].data)[k])
    IN  /\ match.kind = "ok"
        /\ Strings(docFiles[f].data)[k] = match.localPathWithQuery
        /\ \E i \in 1..Len(assetMap) :
              /\ assetMap[i].localPath = match.localPath
              /\ i \in Assets
              /\ Outcome(i) \in {"downloaded", "skipped"}
              /\ assetFiles[assetMap[i].filePath] # "absent"

\* C33: at the end of a run that wrote at least one rewritten document, every local
\* path substituted into a document is the public path of an asset of this run whose
\* outcome was downloaded or skipped and whose local file exists on disk.
C33_NoDeadLocalPaths ==
    (pc = "done" /\ DocsWritten)
        => \A f \in DOMAIN docFiles : \A k \in Substituted(f) : LiveTarget(f, k)

\* the same holds of every run in which downloadWithConcurrency started a worker
C33_NoDeadLocalPathsWithWorkers ==
    (pc = "done" /\ DocsWritten /\ hist.launched >= 1)
        => \A f \in DOMAIN docFiles : \A k \in Substituted(f) : LiveTarget(f, k)

\* a run with a worker that rewrote a document, and one without a worker that did
C33_WitnessWithWorkers ==
    /\ pc = "done"
    /\ DocsWritten
    /\ hist.launched >= 1
    /\ \E f \in DOMAIN docFiles : Substituted(f) # {}

(***************************************************************************)
(* C34  Worker count under any option value                                *)
(***************************************************************************)
\* downloadWithConcurrency has been called with a non-empty asset list
PoolCalled == pc \in {"download", "decide", "rewrite"} /\ Len(assetMap) > 0

\* C34: for a non-empty asset list and any value of the concurrency option,
\* downloadWithConcurrency launches at least one worker, and a result with failed = 0
\* means that every asset was attempted (success + skipped equals the asset count)
\* before rewriting starts.
C34_AtLeastOneWorker ==
    /\ PoolCalled => hist.launched >= 1
    /\ (pc = "rewrite" /\ counters.failed = 0)
          => counters.success + counters.skipped = Len(assetMap)

\* what the code guarantees: at least one worker for every concurrency that is a number
C34_AtLeastOneWorkerForNumbers ==
    (PoolCalled /\ opts.concurrencyIsNumber)
        => /\ hist.launched >= 1
           /\ (pc = "rewrite" /\ counters.failed = 0)
                 => counters.success + counters.skipped = Len(assetMap)

\* a run with concurrency 0 and one with concurrency -1 reached the rewrite
C34_WitnessNumbers ==
    /\ pc = "rewrite"
    /\ opts.concurrencyIsNumber
    /\ opts.concurrency < 1
    /\ hist.launched = 1

(***************************************************************************)
(* C35  Fetcher totality and termination                                   *)
(***************************************************************************)
\* ensureDirectoryExists or writeFile threw in the attempt of this event
FilesystemError(ev) ==
    \/ ev.e = "response" /\ ev.s \in env.mkdirErrors
    \/ ev.e = "write" /\ ev.s # "ok"

\* what downloadAsset may hand to its caller
WellFormedResult(result) ==
    /\ result.status \in {"downloaded", "skipped", "failed"}
    /\ result.metadata.has <=> result.status \in {"downloaded", "skipped"}

\* C35: for every sequence of responses and errors and every attempt limit,
\* downloadAsset sends at most as many requests as the limit allows, raises nothing
\* to its caller, and returns once, with downloaded or skipped and metadata, or with
\* failed and no metadata; an error of ensureDirectoryExists or of writeFile makes it
\* return failed.
C35_FetcherTotality ==
    /\ pc \in {"download", "decide"} => hist.error = ""
    /\ \A a \in Assets :
          /\ Requests(a) <= maxRetriesOf(opts)
          /\ Len(EventsOf(a, "return")) <= 1
          /\ \A i \in 1..Len(LogOf(a)) :
                /\ LogOf(a)[i].e = "return" => i = Len(LogOf(a))
                /\ FilesystemError(LogOf(a)[i])
                      => /\ Len(LogOf(a)) = i + 1
                         /\ LogOf(a)[i + 1] = Ev("return", 0, "failed")
    /\ \A w \in DOMAIN workers :
          workers[w].pc = "resume" => WellFormedResult(workers[w].result)
    /\ (pc \in {"decide", "rewrite", "done"} /\ hist.launched > 0)
          => \A a \in Assets : Outcome(a) \in {"downloaded", "skipped", "failed"}

\* the second attempt got its body and writeFile failed: downloadAsset returned failed
C35_Witness ==
    \E a \in Assets :
       /\ maxRetriesOf(opts) = 2
       /\ Requests(a) = 2
       /\ Len(LogOf(a)) >= 2
       /\ LogOf(a)[Len(LogOf(a)) - 1] = Ev("write", 0, "ENOSPC")
       /\ Outcome(a) = "failed"
       /\ hist.end = "aborted"

\* ensureDirectoryExists threw in the first attempt
C35_WitnessDirectory ==
    \E a \in Assets :
       /\ Len(LogOf(a)) = 3
       /\ LogOf(a) = <<Ev("request", 1, LogOf(a)[1].s), Ev("response", 0, "EACCES"),
                       Ev("return", 0, "failed")>>
       /\ hist.end = "aborted"

(***************************************************************************)
(* C36  Failed attempts leave the local file untouched                     *)
(***************************************************************************)
\* the local file of asset a holds what it held before the run
KeepsBytes(a) ==
    assetFiles[assetMap[a].filePath] = hist.files0[assetMap[a].filePath]

\* writeFile was called for asset a
WriteCalled(a) == Len(EventsOf(a, "write")) > 0

\* every call of writeFile comes right after a 2xx response whose body was read
WrittenAfterBody(a) ==
    \A i \in 1..Len(LogOf(a)) :
       LogOf(a)[i].e = "write"
           => /\ i >= 3
              /\ LogOf(a)[i - 1] = Ev("body", 0, "ok")
              /\ LogOf(a)[i - 2].e = "response"
              /\ LogOf(a)[i - 2].s = ""
              /\ responseOk(LogOf(a)[i - 2].n)

\* C36: the local file of an asset is written only after a 2xx response whose body
\* was read completely; an attempt that ends with 304, a non-2xx status, a timeout or
\* a network error neither writes nor truncates the file, and an asset that ends as
\* failed keeps the bytes it had before the run.
C36_FailedKeepsBytes ==
    \A a \in Assets :
       /\ WrittenAfterBody(a)
       /\ ~WriteCalled(a) => KeepsBytes(a)
       /\ Outcome(a) = "failed" => KeepsBytes(a)

\* what holds: the file is touched by writeFile only, after a 2xx response and its
\* body, and an asset that failed without a call of writeFile keeps its bytes
C36_UntouchedWithoutWrite ==
    \A a \in Assets :
       /\ WrittenAfterBody(a)
       /\ ~WriteCalled(a) => KeepsBytes(a)
       /\ (Outcome(a) = "failed" /\ ~KeepsBytes(a))
             => /\ LogOf(a)[Len(LogOf(a)) - 1].e = "write"
                /\ LogOf(a)[Len(LogOf(a)) - 1].s # "ok"

\* an asset with an old local file failed after two attempts without a write
C36_WitnessUntouched ==
    \E a \in Assets :
       /\ Outcome(a) = "failed"
       /\ Requests(a) = 2
       /\ ~WriteCalled(a)
       /\ hist.files0[assetMap[a].filePath] = "old"
       /\ assetFiles[assetMap[a].filePath] = "old"

(***************************************************************************)
(* C37  Resolver totality                                                  *)
(***************************************************************************)
\* the assets that the strings of document f registered before the scan of f ended
RegisteredBy(f) ==
    {i \in 1..Len(assetMap) :
        \E k \in 1..Len(Strings(hist.docs0[f].data)) :
           /\ ResolvedOf[Strings(hist.docs0[f].data)[k]].kind = "ok"
           /\ ResolvedOf[Strings(hist.docs0[f].data)[k]].cacheKey = assetMap[i].cacheKey}

\* C37: resolveMediaPath returns null or a complete record for every string and never
\* raises, so no document that was parsed is dropped from the rewrite list after
\* some of its assets were registered.
C37_ResolverTotality ==
    \A f \in 1..scanIdx :
       hist.docs0[f].ok
           => /\ \A k \in 1..Len(Strings(hist.docs0[f].data)) :
                    ResolvedOf[Strings(hist.docs0[f].data)[k]].kind \in {"null", "ok"}
              /\ RegisteredBy(f) # {} => f \in Collected

\* what holds of the resolver: it raises exactly on a malformed escape in the path part
\* of a string under the media prefix, and returns null or a record otherwise
C37_RaisesOnMalformedEscape ==
    res.kind # "pending"
        => /\ res.kind \in {"null", "ok", "throw"}
           /\ res.kind = "throw"
                 <=> /\ StartsWith(url, MediaPrefix)
                     /\ Malformed(SplitOn(SubSeq(url, Len(MediaPrefix) + 1, Len(url)), "?")[1])

(***************************************************************************)
(* C38  Manifest frame                                                     *)
(***************************************************************************)
\* the entries the manifest file held before the run
FileEntries0 == IF hist.manifest0.kind = "map" THEN hist.manifest0.m ELSE <<>>

\* the cache keys of the assets of the current build
AssetKeys == {assetMap[i].cacheKey : i \in 1..Len(assetMap)}

\* the entry of the key is in the sequence m what it was in the sequence m0
SameEntry(m0, m, key) ==
    /\ HasKey(m, key) <=> HasKey(m0, key)
    /\ Lookup(m, key) = Lookup(m0, key)

\* C38: the manifest write-back changes only the entries whose cache key belongs to an
\* asset of the current build; an entry whose key the current content does not
\* reference is left as it was, in the manifest in memory and in the file, and is
\* never pruned.
C38_ManifestFrame ==
    /\ \A key \in Keys(FileEntries0) \cup Keys(FileEntries) :
          key \notin AssetKeys => SameEntry(FileEntries0, FileEntries, key)
    /\ hist.manifest0.kind = "map" => manifestFile.kind = "map"
    /\ (hist.saved /\ opts.cacheManifest)
          => \A key \in Keys(Loaded.m) \cup Keys(manifest.m) :
                key \notin AssetKeys => SameEntry(Loaded.m, manifest.m, key)

\* the file was written with a changed entry of an asset while the entries of two keys
\* that the content does not reference are still there
C38_Witness ==
    /\ hist.manifestWrites = 1
    /\ Len(assetMap) > 0
    /\ \E key \in AssetKeys : ~SameEntry(FileEntries0, FileEntries, key)
    /\ Cardinality(Keys(FileEntries0) \ AssetKeys) >= 2
    /\ \A key \in Keys(FileEntries0) \ AssetKeys : SameEntry(FileEntries0, FileEntries, key)

(***************************************************************************)
(* C39  Rewrite idempotence                                                *)
(***************************************************************************)
\* what the rewrite transformer puts in the place of each string of the content
SubstituteOf == [s \in DOMAIN ResolvedOf |-> IF ResolvedOf[s].kind = "throw" THEN s
                                             ELSE rewriteTransformer(s)]

\* the build before this one ran its rewrite loop to the end
RewrittenBefore ==
    /\ hist.run > 1
    /\ hist.prev.end = "completed"
    /\ opts.rewriteContent

ListedFonts(json) ==
    ({json[i].woff : i \in 1..Len(json)} \cup {json[i].woff2 : i \in 1..Len(json)}) \ {"null"}

\* the hook has returned without raising
FontReturnedNormally == font.pc = "done" /\ font.end \in {"completed", "nofonts", "warned", "nourl"}

\* C40: whenever the font-downloader hook has returned normally from a start in which
\* fonts.json listed only files of the fonts directory (it succeeded, found no fonts, or
\* swallowed an error on Netlify), every woff and woff2 file that fonts.json lists
\* exists in the fonts directory.
C40_FontDirectoryConsistency ==
    (FontReturnedNormally /\ ListedFonts(font.json) \ font.dir0 = {})
        => ListedFonts(font.json) \subseteq font.dir

\* what holds: the listed files exist whenever the hook got as far as writing
\* fonts.json, or did not touch the directory at all
C40_ConsistentWhenSaved ==
    (font.pc = "done" /\ font.end \in {"completed", "nofonts", "nourl"}
        /\ (font.end = "nourl" => ListedFonts(font.json) \subseteq font.dir0))
        => ListedFonts(font.json) \subseteq font.dir

====
